---------------------------- MODULE Spec2Model ----------------------------
(***************************************************************************)
(* Model of the pollution analytics engine (analysis_core.py) and of the   *)
(* loader columns it is fed with (data_manager.py, gui_main.py).           *)
(*                                                                         *)
(* Numbers.  Concentrations and breakpoints are decimal numbers with one   *)
(* fractional digit in the source (35.4, 4.4, ...).  The model keeps them  *)
(* as integers counted in tenths of the pollutant's unit: 35.4 is 354.     *)
(* The index formula is a ratio of concentration differences, so it is     *)
(* unchanged by that scaling.  The value before rounding is kept exactly   *)
(* as the fraction num/den.                                                *)
(*                                                                         *)
(* Floating point.  The source evaluates the formula in binary floating    *)
(* point and rounds with Python's round().  On the one-digit grid the      *)
(* accumulated error (about 1e-13) is far smaller than the distance of any *)
(* non-tie value from a tie (at least 1/(2*den)), so it matters only when  *)
(* the exact value is a tie k + 1/2: there the computed value may fall     *)
(* just below, exactly on, or just above the tie (PM2.5 5.4 gives 23,      *)
(* exact 22.5).  That direction is the input fp of round.                  *)
(***************************************************************************)
EXTENDS Integers, Sequences, FiniteSets, Bags, TLC

VARIABLES
    pc,                \* position of the caller: which call is pending or done
    concentration,     \* calculate_single_aqi: argument concentration (tenths)
    higher,            \* a second, larger concentration for the same table
    breakpoints,       \* calculate_single_aqi: argument breakpoints (tenths)
    aqi,               \* calculate_single_aqi(concentration, breakpoints)
    aqi_higher,        \* calculate_single_aqi(higher, breakpoints)
    data_columns,      \* data.columns of the table handed to the engine
    data,              \* its rows, in row order; a missing cell is absent
    pollutants_config, \* compute_air_quality_index: argument pollutants_config
    aqi_results,       \* what compute_air_quality_index returned
    series,            \* the table of a time-series call: its columns, the
                       \* number of rows with timestamp and target present,
                       \* the hour of the last such row
    method,            \* predict_future_levels: argument method
    forecast_horizon,  \* predict_future_levels: argument forecast_horizon
    arima,             \* what the ARIMA fit and forecast do in this call
    ensemble,          \* what the random forest fit and predict do
    forecast_results,  \* what predict_future_levels returned
    raised,            \* the exception that left the call, "none" if none did
    trend_data,        \* calculate_pollution_trend: argument data, its
                       \* columns and its rows in table order
    trend_method,      \* calculate_pollution_trend: argument method
    decomposition,     \* what seasonal_decompose does in this call
    trend_results,     \* what calculate_pollution_trend returned
    trend_raised,      \* the exception that left it, "none" if none did
    seasonal_data,     \* analyze_seasonal_patterns: argument data
    analysis_period,   \* analyze_seasonal_patterns: argument period
    scipy,             \* what the scipy import and f_oneway do in this call
    seasonal_results,  \* what analyze_seasonal_patterns returned
    seasonal_raised,   \* the exception that left it, "none" if none did
    store,             \* the tables alive after a call on the caller's
                       \* table: the caller's first, then the returned one
    snapshot,          \* the caller's table as it was before the first call
    call,              \* the last call made on the caller's table
    returned_id,       \* the place in store of the table it returned, 0 if
                       \* it returned none
    report,            \* the report or result it returned
    call_raised,       \* the exception that left it, "none" if none did
    gui_data,          \* gui: the tables assigned to self.data so far, 0
                       \* while self.data is None
    gui_pc,            \* gui thread: "mainloop", or the handler it is in
    gui_step,          \* gui thread: how far it is in that handler
    is_analyzing,      \* self.is_analyzing
    buttons_enabled,   \* the buttons whose state is 'normal'
    analysis_thread,   \* self.analysis_thread: a thread number, 0 for None
    pending_update,    \* self.pending_update: a display handler, "unset"
                       \* while the attribute does not exist
    threads,           \* the AnalysisThread objects made so far
    displayed,         \* the calls of display handlers: thread and handler
    analysis_results,  \* self.analysis_results: key to the thread whose
                       \* result it holds
    cancelled,         \* the threads that ran when cancel_analysis was used
    message,           \* the message box the GUI thread has open
    clicks,            \* the clicks on the analysis and cancel buttons so far
    raw_data,          \* run_complete_analysis: the loaded table
    system_results,    \* what run_complete_analysis returned
    system_raised      \* the exception that left it, "none" if none did

indexVars == <<concentration, higher, breakpoints, aqi, aqi_higher>>

aqiVars == <<data_columns, data, pollutants_config, aqi_results>>

forecastVars ==
    <<series, method, forecast_horizon, arima, ensemble, forecast_results, raised>>

trendVars ==
    <<trend_data, trend_method, decomposition, trend_results, trend_raised>>

seasonalVars ==
    <<seasonal_data, analysis_period, scipy, seasonal_results, seasonal_raised>>

frameVars == <<store, snapshot, call, returned_id, report, call_raised>>

guiVars ==
    <<gui_data, gui_pc, gui_step, is_analyzing, buttons_enabled, analysis_thread,
      pending_update, threads, displayed, analysis_results, cancelled, message,
      clicks>>

systemVars == <<raw_data, system_results, system_raised>>

\* the variables of the data_manager, gui and main_system specifications
laterVars == <<frameVars, guiVars, systemVars>>

vars ==
    <<pc, indexVars, aqiVars, forecastVars, trendVars, seasonalVars, laterVars>>

---------------------------------------------------------------------------
(* Bounds of the model *)

\* concentrations run from Margin tenths below 0 to Margin tenths above the
\* last breakpoint of the table
Margin == 20

\* custom breakpoint tables hold values 1..MaxBreakpoint (tenths)
MaxBreakpoint == 7

\* a table has at most MaxRows rows
MaxRows == 2

\* forecasts run over 1..MaxHorizon steps
MaxHorizon == 2

\* a trend series changes by -MaxStep..MaxStep half units per row
MaxStep == 1

\* the readings of hours 7 and 18 stand 0..MaxPeak units above the others
MaxPeak == 1

---------------------------------------------------------------------------
(* compute_air_quality_index: the built-in configuration *)

\* iteration order of the default pollutants_config dict
PollutantOrder == <<"PM2.5", "PM10", "NO2", "SO2", "CO">>

\* pollutants_config[p]['breakpoints'], in tenths
default_breakpoints(p) ==
    CASE p = "PM2.5" -> <<120, 354, 554, 1504, 2504>>
      [] p = "PM10"  -> <<540, 1540, 2540, 3540, 4240>>
      [] p = "NO2"   -> <<530, 1000, 3600, 6490, 12490>>
      [] p = "SO2"   -> <<350, 750, 1850, 3040, 6040>>
      [] p = "CO"    -> <<44, 94, 124, 154, 304>>

---------------------------------------------------------------------------
(* calculate_single_aqi *)

aqi_breakpoints == <<0, 50, 100, 150, 200, 300, 500>>

FpError == {"below", "exact", "above"}

\* Python round() of the float that stands for num/den (den > 0): to the
\* nearest integer; an exactly represented tie goes to the even neighbour,
\* a tie the float error moved goes where the error points.
round(num, den, fp) ==
    LET q == num \div den
        r == num % den
    IN  IF 2 * r < den THEN q
        ELSE IF 2 * r > den THEN q + 1
        ELSE CASE fp = "below" -> q
               [] fp = "above" -> q + 1
               [] OTHER        -> IF q % 2 = 0 THEN q ELSE q + 1

\* the loop "for i in range(len(breakpoints)): if concentration <=
\* breakpoints[i]": the first such i (0-based), len(breakpoints) when the
\* loop runs out
RECURSIVE first_segment(_, _, _)
first_segment(c, b, i) ==
    IF i >= Len(b) THEN Len(b)
    ELSE IF c <= b[i + 1] THEN i
    ELSE first_segment(c, b, i + 1)

\* the ceiling variant a slip in the final return would give: the scale
\* value where the last segment starts
calculate_single_aqi_low_ceiling(c, b, fp) ==
    LET i == first_segment(c, b, 0)
    IN  IF i = Len(b) THEN aqi_breakpoints[Len(b)]
        ELSE LET c_low  == IF i > 0 THEN b[i] ELSE 0
                 c_high == b[i + 1]
                 i_low  == aqi_breakpoints[i + 1]
                 i_high == aqi_breakpoints[i + 2]
             IN  round((i_high - i_low) * (c - c_low) + i_low * (c_high - c_low),
                       c_high - c_low, fp)

\* the variant that interpolates every segment from concentration 0
calculate_single_aqi_zero_low(c, b, fp) ==
    LET i == first_segment(c, b, 0)
    IN  IF i = Len(b) THEN 500
        ELSE LET c_low  == 0
                 c_high == b[i + 1]
                 i_low  == aqi_breakpoints[i + 1]
                 i_high == aqi_breakpoints[i + 2]
             IN  round((i_high - i_low) * (c - c_low) + i_low * (c_high - c_low),
                       c_high - c_low, fp)

\* the variant whose segment test is strict (concentration < breakpoints[i])
RECURSIVE first_segment_strict(_, _, _)
first_segment_strict(c, b, i) ==
    IF i >= Len(b) THEN Len(b)
    ELSE IF c < b[i + 1] THEN i
    ELSE first_segment_strict(c, b, i + 1)

calculate_single_aqi_strict(c, b, fp) ==
    LET i == first_segment_strict(c, b, 0)
    IN  IF i = Len(b) THEN 500
        ELSE LET c_low  == IF i > 0 THEN b[i] ELSE 0
                 c_high == b[i + 1]
                 i_low  == aqi_breakpoints[i + 1]
                 i_high == aqi_breakpoints[i + 2]
             IN  round((i_high - i_low) * (c - c_low) + i_low * (c_high - c_low),
                       c_high - c_low, fp)

\* calculate_single_aqi(concentration, breakpoints); Python's 0-based
\* breakpoints[i] is b[i + 1] here, aqi_breakpoints[i] is
\* aqi_breakpoints[i + 1].  aqi = (i_high - i_low) / (c_high - c_low) *
\* (concentration - c_low) + i_low is the fraction num/den below.
calculate_single_aqi(c, b, fp) ==
    LET i == first_segment(c, b, 0)
    IN  IF i = Len(b) THEN 500
        ELSE LET c_low  == IF i > 0 THEN b[i] ELSE 0
                 c_high == b[i + 1]
                 i_low  == aqi_breakpoints[i + 1]
                 i_high == aqi_breakpoints[i + 2]
             IN  round((i_high - i_low) * (c - c_low) + i_low * (c_high - c_low),
                       c_high - c_low, fp)

---------------------------------------------------------------------------
(* compute_air_quality_index *)

\* Category names stand for the source's strings:
\*   "Good"               "Хорошо"
\*   "Moderate"           "Удовлетворительно"
\*   "UnhealthySensitive" "Вредно для чувствительных групп"
\*   "Unhealthy"          "Вредно"
\*   "VeryUnhealthy"      "Очень вредно"
\*   "Hazardous"          "Опасно"
\* and "advice: <category>" for the advice string advice_map holds for it.

\* pollutants_config[p]['unit']
default_unit(p) ==
    CASE p = "PM2.5" -> "ug/m3"
      [] p = "PM10"  -> "ug/m3"
      [] p = "NO2"   -> "ppb"
      [] p = "SO2"   -> "ppb"
      [] p = "CO"    -> "ppm"

\* the dict built when pollutants_config is None, as the sequence of its
\* items in iteration order
default_config ==
    [k \in 1..Len(PollutantOrder) |->
        [name        |-> PollutantOrder[k],
         unit        |-> default_unit(PollutantOrder[k]),
         breakpoints |-> default_breakpoints(PollutantOrder[k])]]

\* data[col].dropna(): the non-missing values of a column, in row order
dropna(rows, col) ==
    LET kept == SelectSeq(rows, LAMBDA row : col \in DOMAIN row)
    IN  [k \in 1..Len(kept) |-> kept[k][col]]

\* the variant that takes the first reading, concentrations.iloc[0]
current_level_first(concentrations) == concentrations[1]

\* current_level = concentrations.iloc[-1]
current_level(concentrations) == concentrations[Len(concentrations)]

\* the variant of the band test with strict comparisons (aqi_value < 50 ...)
classify_strict(aqi_value) ==
    IF aqi_value < 50 THEN [category |-> "Good", color |-> "green"]
    ELSE IF aqi_value < 100 THEN [category |-> "Moderate", color |-> "yellow"]
    ELSE IF aqi_value < 150 THEN [category |-> "UnhealthySensitive", color |-> "orange"]
    ELSE IF aqi_value < 200 THEN [category |-> "Unhealthy", color |-> "red"]
    ELSE IF aqi_value < 300 THEN [category |-> "VeryUnhealthy", color |-> "purple"]
    ELSE [category |-> "Hazardous", color |-> "maroon"]

\* the if/elif chain that sets category and color
classify(aqi_value) ==
    IF aqi_value <= 50 THEN [category |-> "Good", color |-> "green"]
    ELSE IF aqi_value <= 100 THEN [category |-> "Moderate", color |-> "yellow"]
    ELSE IF aqi_value <= 150 THEN [category |-> "UnhealthySensitive", color |-> "orange"]
    ELSE IF aqi_value <= 200 THEN [category |-> "Unhealthy", color |-> "red"]
    ELSE IF aqi_value <= 300 THEN [category |-> "VeryUnhealthy", color |-> "purple"]
    ELSE [category |-> "Hazardous", color |-> "maroon"]

advice_map ==
    [c \in {"Good", "Moderate", "UnhealthySensitive", "Unhealthy",
            "VeryUnhealthy", "Hazardous"} |-> "advice: " \o c]

\* advice_map.get(category, "Рекомендации недоступны")
generate_health_advice(category) ==
    IF category \in DOMAIN advice_map THEN advice_map[category]
    ELSE "advice unavailable"

\* the items of pollutants_config that get a record: the column is in
\* data.columns and has at least one non-missing value
measured(columns, rows, config) ==
    SelectSeq(config, LAMBDA e : e.name \in columns /\ Len(dropna(rows, e.name)) > 0)

\* the record stored in aqi_results[pollutant]
pollutant_record(e, rows, fp) ==
    LET concentrations == dropna(rows, e.name)
        level          == current_level(concentrations)
        aqi_value      == calculate_single_aqi(level, e.breakpoints, fp)
        band           == classify(aqi_value)
    IN  [concentration |-> level,
         unit          |-> e.unit,
         aqi           |-> aqi_value,
         category      |-> band.category,
         color         |-> band.color,
         health_advice |-> generate_health_advice(band.category)]

\* max([result['aqi'] for result in aqi_results.values()])
max_aqi(order, per) ==
    CHOOSE m \in {per[order[k]].aqi : k \in 1..Len(order)} :
        \A k \in 1..Len(order) : per[order[k]].aqi <= m

\* the variant that keeps the last of several maximal items
max_key_last(order, per) ==
    LET k == CHOOSE k \in 1..Len(order) :
                 /\ per[order[k]].aqi = max_aqi(order, per)
                 /\ \A j \in (k + 1)..Len(order) : per[order[j]].aqi < max_aqi(order, per)
    IN  order[k]

\* max(aqi_results.items(), key=lambda x: x[1]['aqi'])[0]: Python's max
\* keeps the first of several maximal items, in insertion order
max_key(order, per) ==
    LET k == CHOOSE k \in 1..Len(order) :
                 /\ per[order[k]].aqi = max_aqi(order, per)
                 /\ \A j \in 1..(k - 1) : per[order[j]].aqi < max_aqi(order, per)
    IN  order[k]

\* the variant that stores an overall record whatever aqi_results holds
with_overall_always(order, per) ==
    IF order = << >>
    THEN "overall" :> [aqi |-> 0, dominant_pollutant |-> "none",
                       category |-> "Good", color |-> "green"]
    ELSE LET dominant_pollutant == max_key(order, per)
         IN  per @@ ("overall" :>
                 [aqi                |-> max_aqi(order, per),
                  dominant_pollutant |-> dominant_pollutant,
                  category           |-> per[dominant_pollutant].category,
                  color              |-> per[dominant_pollutant].color])

\* "if aqi_results:" and the overall record; order is the insertion order
\* of the per-pollutant records per
with_overall(order, per) ==
    IF order = << >>
    THEN per
    ELSE LET dominant_pollutant == max_key(order, per)
         IN  per @@ ("overall" :>
                 [aqi                |-> max_aqi(order, per),
                  dominant_pollutant |-> dominant_pollutant,
                  category           |-> per[dominant_pollutant].category,
                  color              |-> per[dominant_pollutant].color])

\* compute_air_quality_index(data, pollutants_config); fp[p] is the
\* direction of the rounding error in pollutant p's index
compute_air_quality_index(columns, rows, config, fp) ==
    LET items == measured(columns, rows, config)
        order == [k \in 1..Len(items) |-> items[k].name]
        item(p) == CHOOSE e \in {items[k] : k \in 1..Len(items)} : e.name = p
        per   == [p \in {order[k] : k \in 1..Len(order)} |->
                     pollutant_record(item(p), rows, fp[p])]
    IN  with_overall(order, per)

---------------------------------------------------------------------------
(* predict_future_levels *)

\* Forecast values are counted in twentieths of the pollutant's unit; the
\* sub-methods' outputs lie on the tenths grid, so they are even numbers
\* and the mean of two of them is exact.
\*
\* The fitted models are library code (statsmodels ARIMA, scikit-learn
\* RandomForestRegressor): what they do is an input of the call.  An
\* outcome is [ok |-> TRUE, values |-> <forecast_horizon values>] when
\* fit and forecast return, [ok |-> FALSE, error |-> <str(e)>] when they
\* raise inside the try block.

\* what a call hands back: a returned dict, or an exception
Returned(result) == [raised |-> "none", result |-> result]

Raises(exception) == [raised |-> exception, result |-> << >>]

\* the variant of np.mean that keeps the first array
mean_axis0_first(arrays) == arrays[1]

RECURSIVE sum_at(_, _, _)
sum_at(arrays, k, n) ==
    IF n = 0 THEN 0 ELSE arrays[n][k] + sum_at(arrays, k, n - 1)

\* np.mean(list(predictions.values()), axis=0): the element-wise mean of
\* arrays of equal length
mean_axis0(arrays) ==
    [k \in 1..Len(arrays[1]) |-> sum_at(arrays, k, Len(arrays)) \div Len(arrays)]

\* the block "if method in ['arima', 'hybrid']": its entry of predictions
\* and what it stores in forecast_results
arima_predictions(m, outcome) ==
    IF m \in {"arima", "hybrid"} /\ outcome.ok
    THEN <<[name |-> "arima", values |-> outcome.values]>>
    ELSE << >>

arima_notes(m, outcome) ==
    IF m \in {"arima", "hybrid"}
    THEN IF outcome.ok THEN "arima_confidence" :> "0.8"
         ELSE "arima_error" :> outcome.error
    ELSE << >>

\* len(features): shift(24) leaves the first 24 rows of the gap-free series
\* without value_lag_24, and dropna() removes them
features_len(points) == IF points > 24 THEN points - 24 ELSE 0

\* the block "if method in ['ensemble', 'hybrid']"
ensemble_trained(m, points) ==
    m \in {"ensemble", "hybrid"} /\ features_len(points) > 100

ensemble_predictions(m, points, outcome) ==
    IF ensemble_trained(m, points) /\ outcome.ok
    THEN <<[name |-> "ensemble", values |-> outcome.values]>>
    ELSE << >>

ensemble_notes(m, points, outcome) ==
    IF ensemble_trained(m, points)
    THEN IF outcome.ok
         THEN "ensemble_features_used" :>
                  <<"hour", "day_of_week", "month", "value_lag_1",
                    "value_lag_24", "rolling_mean_7">>
         ELSE "ensemble_error" :> outcome.error
    ELSE << >>

\* the variant of the combination that always takes the first prediction
combine_first_only(m, predictions) ==
    IF predictions # << >>
    THEN [ok |-> TRUE,
          predictions |-> predictions,
          final_forecast |-> predictions[1].values,
          method_used |-> predictions[1].name]
    ELSE [ok |-> FALSE]

\* the if/elif/else that chooses final_forecast and method_used;
\* predictions is the dict as the sequence of its items
combine(m, predictions) ==
    IF m = "hybrid" /\ Len(predictions) >= 2
    THEN LET hybrid_forecast ==
                 mean_axis0([k \in 1..Len(predictions) |-> predictions[k].values])
         IN  [ok |-> TRUE,
              predictions |-> Append(predictions,
                                     [name |-> "hybrid", values |-> hybrid_forecast]),
              final_forecast |-> hybrid_forecast,
              method_used |-> "hybrid"]
    ELSE IF predictions # << >>
    THEN [ok |-> TRUE,
          predictions |-> predictions,
          final_forecast |-> predictions[1].values,
          method_used |-> predictions[1].name]
    ELSE [ok |-> FALSE]

RECURSIVE seq_sum(_, _)
seq_sum(values, n) == IF n = 0 THEN 0 ELSE values[n] + seq_sum(values, n - 1)

\* forecast_stats: min, max and mean of final_forecast, the mean as the
\* fraction num/den; std is a square root and has no place in the model's
\* integer arithmetic
forecast_stats(values) ==
    [min  |-> CHOOSE v \in {values[k] : k \in 1..Len(values)} :
                  \A k \in 1..Len(values) : v <= values[k],
     max  |-> CHOOSE v \in {values[k] : k \in 1..Len(values)} :
                  \A k \in 1..Len(values) : v >= values[k],
     mean |-> [num |-> seq_sum(values, Len(values)), den |-> Len(values)]]

\* predict_future_levels(data, pollutant, forecast_horizon, method), with
\* forecast_horizon >= 1; dates are hours
predict_future_levels(table, pollutant, horizon, m, arima_outcome, ensemble_outcome) ==
    IF pollutant \notin table.columns
    THEN Returned("error" :> "pollutant not found")
    ELSE IF "timestamp" \notin table.columns
    THEN Raises("KeyError")
    ELSE IF table.points < 48
    THEN Returned("error" :> "insufficient data")
    ELSE LET start == ("pollutant" :> pollutant)
                          @@ ("forecast_horizon" :> horizon)
                          @@ ("last_historical_date" :> table.last_date)
                          @@ arima_notes(m, arima_outcome)
                          @@ ensemble_notes(m, table.points, ensemble_outcome)
             predictions == arima_predictions(m, arima_outcome)
                                \o ensemble_predictions(m, table.points, ensemble_outcome)
             chosen == combine(m, predictions)
         IN  IF ~chosen.ok
             THEN Returned(start @@ ("error" :> "forecast failed"))
             ELSE Returned(
                    start
                    @@ ("final_forecast" :> chosen.final_forecast)
                    @@ ("method_used" :> chosen.method_used)
                    @@ ("forecast_dates" :>
                           [k \in 1..horizon |-> table.last_date + k])
                    @@ ("all_predictions" :>
                           [name \in {chosen.predictions[k].name :
                                          k \in 1..Len(chosen.predictions)} |->
                               (CHOOSE e \in {chosen.predictions[k] :
                                                  k \in 1..Len(chosen.predictions)} :
                                    e.name = name).values])
                    @@ ("forecast_stats" :> forecast_stats(chosen.final_forecast)))

---------------------------------------------------------------------------
(* Numbers of the trend and seasonal operations *)

\* These operations divide.  A value is kept as the ratio num/den of two
\* integers in lowest terms with den > 0; timestamps are counted in hours
\* from 2024-01-01 00:00, a Monday.  den = 0 stands for what a float
\* division by zero gives: 0/0 is nan, 1/0 is inf, -1/0 is -inf.

\* the one element of a set of one
only(S) == CHOOSE x \in S : TRUE

\* the sequence f with every element worked out once
listed(f) == SelectSeq(f, LAMBDA x : TRUE)

\* body(value), with the value computed once
bind(value, body(_)) == only({body(v) : v \in {value}})

abs(a) == IF a < 0 THEN 0 - a ELSE a

sign(a) == IF a > 0 THEN 1 ELSE IF a < 0 THEN 0 - 1 ELSE 0

RECURSIVE gcd(_, _)
gcd(a, b) == IF b = 0 THEN a ELSE gcd(b, a % b)

fraction(num, den) ==
    IF den = 0 THEN [num |-> sign(num), den |-> 0]
    ELSE LET g == gcd(abs(num), abs(den))
         IN  [num |-> sign(den) * (num \div g), den |-> abs(den) \div g]

nan == [num |-> 0, den |-> 0]

\* np.isnan
isnan(x) == x = nan

whole(a) == [num |-> a, den |-> 1]

\* x + y and x - y of finite values, over the least common denominator
plus(x, y) ==
    LET l == (x.den \div gcd(x.den, y.den)) * y.den
    IN  fraction(x.num * (l \div x.den) + y.num * (l \div y.den), l)

minus(x, y) == plus(x, [num |-> 0 - y.num, den |-> y.den])

\* x * a and x / a for an integer a # 0
scaled(x, a) ==
    LET g == gcd(abs(a), x.den)
    IN  fraction(x.num * (a \div g), x.den \div g)

shared(x, a) ==
    LET g == gcd(abs(x.num), abs(a))
    IN  fraction(x.num \div g, x.den * (a \div g))

\* x / y of finite values as numpy's float64 divides: a zero divisor gives
\* nan or an infinity, never an exception
divided(x, y) ==
    IF y.num = 0 THEN fraction(x.num, 0)
    ELSE LET g == gcd(abs(x.num), abs(y.num))
             h == gcd(x.den, y.den)
         IN  fraction((x.num \div g) * (y.den \div h), (x.den \div h) * (y.num \div g))

\* x < y of finite values
less(x, y) == minus(x, y).num < 0

---------------------------------------------------------------------------
(* The cleaned series of a time-series call *)

\* data[['timestamp', pollutant]].dropna(): the rows that hold both cells
complete_rows(rows, pollutant) ==
    SelectSeq(rows, LAMBDA row : {"timestamp", pollutant} \subseteq DOMAIN row)

\* .sort_values('timestamp'): ascending; the tables of the model hold every
\* timestamp once.  rank[k] is the place of row k in the sorted table.
sort_values(rows) ==
    bind(listed([k \in 1..Len(rows) |->
             1 + Cardinality({j \in 1..Len(rows) :
                     \/ rows[j]["timestamp"] < rows[k]["timestamp"]
                     \/ /\ rows[j]["timestamp"] = rows[k]["timestamp"]
                        /\ j < k})]),
         LAMBDA rank :
             listed([r \in 1..Len(rows) |->
                        rows[only({k \in 1..Len(rows) : rank[k] = r})]]))

time_series(rows, pollutant) ==
    bind(complete_rows(rows, pollutant), LAMBDA complete : sort_values(complete))

---------------------------------------------------------------------------
(* calculate_pollution_trend *)

\* Direction names stand for the source's strings: "rise" for "рост",
\* "fall" for "снижение", "stable" for "стабильный".
\* Left out of the result: linear_trend.r_squared (the library's score) and
\* the seasonal and residual arrays of the decomposition.

\* f[from] + ... + f[to]: the positive terms counted as the copies of a
\* bag, the negative ones likewise
total(f, from, to) ==
    bind(f, LAMBDA g :
        BagCardinality([k \in {j \in from..to : g[j] > 0} |-> g[k]])
            - BagCardinality([k \in {j \in from..to : g[j] < 0} |-> 0 - g[k]]))

\* LinearRegression().fit(time_numeric, concentration): the least squares
\* line of y over the elapsed hours t, slope as the lowest-terms ratio p/q
lin_model(t, y) ==
    LET n   == Len(y)
        T   == total(t, 1, n)
        Y   == total(y, 1, n)
        Stt == n * total([k \in 1..n |-> t[k] * t[k]], 1, n) - T * T
        Sty == n * total([k \in 1..n |-> t[k] * y[k]], 1, n) - T * Y
        coef == IF Stt = 0 THEN whole(0) ELSE fraction(Sty, Stt)
    IN  [n |-> n, T |-> T, Y |-> Y, coef |-> coef]

\* lin_model.predict(time_numeric)[k]: mean(y) + coef * (t[k] - mean(t))
lin_predict(model, tk) ==
    fraction(model.Y * model.coef.den + model.coef.num * (model.n * tk - model.T),
             model.coef.den * model.n)

\* trend_results['linear_trend']; coef_ is per second, 3600 to the hour
linear_trend(t, y) ==
    bind(lin_model(t, y), LAMBDA model :
        [slope     |-> shared(model.coef, 3600),
         intercept |-> lin_predict(model, 0),
         values    |-> [k \in 1..Len(y) |-> lin_predict(model, t[k])]])

min(a, b) == IF a < b THEN a ELSE b

\* window_size = min(24, len(time_series) // 10)
window_size(n) == min(24, n \div 10)

\* .rolling(window=w, center=True).mean(): the window of row k (1-based)
\* ends (w - 1) // 2 rows after k and holds w rows; a window that reaches
\* over an edge of the series gives a missing value
rolling_mean(y, w) ==
    LET n      == Len(y)
        offset == (w - 1) \div 2
    IN  [k \in 1..n |->
            IF k + offset - w + 1 >= 1 /\ k + offset <= n
            THEN fraction(total(y, k + offset - w + 1, k + offset), w)
            ELSE nan]

\* trend_results['moving_avg']
moving_avg(y) ==
    [window_size |-> window_size(Len(y)),
     values      |-> rolling_mean(y, window_size(Len(y)))]

\* seasonal_decompose(..., period=24)
period == 24

\* decomposition.trend: the centered average over one period, the two end
\* rows of the window weighted by half; missing for the first and the last
\* period // 2 rows
decomposition_trend(y) ==
    LET n    == Len(y)
        half == period \div 2
    IN  [k \in 1..n |->
            IF k - half >= 1 /\ k + half <= n
            THEN fraction(y[k - half] + 2 * total(y, k - half + 1, k + half - 1)
                              + y[k + half],
                          2 * period)
            ELSE nan]

\* the variant that attempts the decomposition whatever the row count
decomposition_attempted_always(m, n) == m \in {"decomposition", "composite"}

\* "if method in ['decomposition', 'composite'] and len(time_series) >= 50"
decomposition_attempted(m, n) == m \in {"decomposition", "composite"} /\ n >= 50

\* the variant whose except clause records nothing
decomposition_part_unrecorded(m, y, outcome) ==
    IF ~decomposition_attempted(m, Len(y)) THEN << >>
    ELSE IF outcome.ok
    THEN "decomposition" :> [trend |-> decomposition_trend(y)]
    ELSE << >>

\* the try block of the decomposition: its result, or the reason of the
\* exception it caught; outcome is what the library call does
decomposition_part(m, y, outcome) ==
    IF ~decomposition_attempted(m, Len(y)) THEN << >>
    ELSE IF outcome.ok
    THEN "decomposition" :> [trend |-> decomposition_trend(y)]
    ELSE "decomposition_error" :> outcome.error

\* composite_trend[k]: zeros, plus the linear value, plus the moving
\* average where it is not nan, divided by method_count = 2
composite_at(lin, ma, k) ==
    shared(plus(lin[k], IF isnan(ma[k]) THEN whole(0) ELSE ma[k]), 2)

composite_trend(lin, ma) == [k \in 1..Len(lin) |-> composite_at(lin, ma, k)]

\* 'рост' if last_val > first_val else 'снижение' if last_val < first_val
\* else 'стабильный'
trend_direction(first_val, last_val) ==
    IF less(first_val, last_val) THEN "rise"
    ELSE IF less(last_val, first_val) THEN "fall"
    ELSE "stable"

\* ((last_val - first_val) / first_val) * 100
change_percentage(first_val, last_val) ==
    LET ratio == divided(minus(last_val, first_val), first_val)
    IN  IF ratio.den = 0 THEN ratio ELSE scaled(ratio, 100)

\* the blocks "if method == 'composite'" and "if 'composite_trend' in
\* trend_results"; with method 'composite' both sub-methods have run
composite_part(m, lin, ma) ==
    IF m # "composite" THEN << >>
    ELSE LET first_val == composite_at(lin, ma, 1)
             last_val  == composite_at(lin, ma, Len(lin))
         IN  ("composite_trend" :> composite_trend(lin, ma))
                 @@ ("overall_direction" :> trend_direction(first_val, last_val))
                 @@ ("change_percentage" :> change_percentage(first_val, last_val))

\* calculate_pollution_trend from "trend_results = {" on: ts is the cleaned
\* and sorted series, t its elapsed hours, y its readings
trend_of(ts, pollutant, m, outcome) ==
    bind([k \in 1..Len(ts) |-> ts[k]["timestamp"] - ts[1]["timestamp"]], LAMBDA t :
    bind([k \in 1..Len(ts) |-> ts[k][pollutant]], LAMBDA y :
    bind(linear_trend(t, y), LAMBDA lin :
    bind(moving_avg(y), LAMBDA ma :
        ("pollutant" :> pollutant)
        @@ ("period_days" :> t[Len(ts)] \div 24)
        @@ ("data_points" :> Len(ts))
        @@ (IF m \in {"linear", "composite"} THEN "linear_trend" :> lin ELSE << >>)
        @@ (IF m \in {"moving_avg", "composite"} THEN "moving_avg" :> ma ELSE << >>)
        @@ decomposition_part(m, y, outcome)
        @@ composite_part(m, lin.values, ma.values)))))

\* the variant that accepts every series that is not empty
enough_for_trend_any(n) == n >= 1

\* "if len(time_series) < 10" is the refusal
enough_for_trend(n) == n >= 10

\* calculate_pollution_trend(data, pollutant, method)
calculate_pollution_trend(table, pollutant, m, outcome) ==
    IF pollutant \notin table.columns
    THEN Returned("error" :> "pollutant not found in data")
    ELSE IF "timestamp" \notin table.columns
    THEN Raises("KeyError")
    ELSE bind(time_series(table.rows, pollutant), LAMBDA ts :
             IF ~enough_for_trend(Len(ts))
             THEN Returned("error" :> "insufficient data for trend analysis")
             ELSE Returned(trend_of(ts, pollutant, m, outcome)))

---------------------------------------------------------------------------
(* analyze_seasonal_patterns *)

\* Left out of the result: the 'std' of every group (a square root).

\* ts_data['timestamp'].dt.hour, .dt.dayofweek (Monday is 0), .dt.month
hour(t) == t % 24

day_of_week(t) == (t \div 24) % 7

\* the number of days of 2024 up to the end of each month
month_ends == <<31, 60, 91, 121, 152, 182, 213, 244, 274, 305, 335, 366>>

month(t) ==
    CHOOSE m \in 1..12 :
        /\ t \div 24 < month_ends[m]
        /\ m > 1 => t \div 24 >= month_ends[m - 1]

\* the group key of a row under each period type
group_key(p, t) ==
    CASE p = "daily"   -> hour(t)
      [] p = "weekly"  -> day_of_week(t)
      [] p = "monthly" -> month(t)

key_name(p) ==
    CASE p = "daily"   -> "hour"
      [] p = "weekly"  -> "day_of_week"
      [] p = "monthly" -> "month"

\* groupby(key): the keys that occur, ascending
group_keys(p, ts) ==
    bind({group_key(p, ts[k]["timestamp"]) : k \in 1..Len(ts)}, LAMBDA keys :
        [i \in 1..Cardinality(keys) |->
            CHOOSE x \in keys : Cardinality({z \in keys : z < x}) = i - 1])

\* the readings of the rows of one group, 0 in the place of the others
group_readings(p, ts, pollutant, key) ==
    [k \in 1..Len(ts) |->
        IF group_key(p, ts[k]["timestamp"]) = key THEN ts[k][pollutant] ELSE 0]

group_count(p, ts, key) ==
    Cardinality({k \in 1..Len(ts) : group_key(p, ts[k]["timestamp"]) = key})

\* groupby(key)[pollutant].agg([...]).reset_index().to_dict('records'):
\* one record per key, ascending; 'count' only for the hourly patterns
patterns(p, ts, pollutant) ==
    bind(group_keys(p, ts), LAMBDA keys :
        [i \in 1..Len(keys) |->
            (key_name(p) :> keys[i])
                @@ ("mean" :> fraction(total(group_readings(p, ts, pollutant, keys[i]),
                                             1, Len(ts)),
                                       group_count(p, ts, keys[i])))
                @@ (IF p = "daily" THEN "count" :> group_count(p, ts, keys[i])
                    ELSE << >>)])

\* the variant of idxmax that keeps the row of the smallest mean
idxmin(rows) ==
    CHOOSE i \in 1..Len(rows) :
        /\ \A j \in 1..Len(rows) : ~less(rows[j]["mean"], rows[i]["mean"])
        /\ \A j \in 1..(i - 1) : less(rows[i]["mean"], rows[j]["mean"])

\* hourly_patterns['mean'].idxmax(): the first row of the largest mean
idxmax(rows) ==
    CHOOSE i \in 1..Len(rows) :
        /\ \A j \in 1..Len(rows) : ~less(rows[i]["mean"], rows[j]["mean"])
        /\ \A j \in 1..(i - 1) : less(rows[j]["mean"], rows[i]["mean"])

\* the blocks "if period == 'daily'", "elif period == 'weekly'", "elif
\* period == 'monthly'"
patterns_part(p, ts, pollutant) ==
    IF p = "daily"
    THEN bind(patterns(p, ts, pollutant), LAMBDA hourly_patterns :
         bind(hourly_patterns[idxmax(hourly_patterns)], LAMBDA max_hour :
             ("hourly_patterns" :> hourly_patterns)
                 @@ ("peak_hour" :> [hour          |-> max_hour["hour"],
                                     concentration |-> max_hour["mean"]])))
    ELSE IF p = "weekly" THEN "daily_patterns" :> patterns(p, ts, pollutant)
    ELSE IF p = "monthly" THEN "monthly_patterns" :> patterns(p, ts, pollutant)
    ELSE << >>

\* the try block around "from scipy import stats": stats is what the
\* import and stats.f_oneway do in this call
significance_part(p, ts, stats) ==
    IF ~stats.installed
    THEN "statistical_note" :> "scipy required"
    ELSE IF p = "daily" /\ Len(group_keys(p, ts)) >= 3
    THEN "statistical_significance" :>
             [f_statistic |-> stats.f_stat,
              p_value     |-> stats.p_value,
              significant |-> ~isnan(stats.p_value)
                                  /\ less(stats.p_value, fraction(5, 100))]
    ELSE << >>

\* "if len(ts_data) < 168" is the refusal
enough_for_seasonal(n) == n >= 168

\* analyze_seasonal_patterns(data, pollutant, period)
analyze_seasonal_patterns(table, pollutant, p, stats) ==
    IF pollutant \notin table.columns
    THEN Returned("error" :> "pollutant not found")
    ELSE IF "timestamp" \notin table.columns
    THEN Raises("KeyError")
    ELSE bind(time_series(table.rows, pollutant), LAMBDA ts :
             IF ~enough_for_seasonal(Len(ts))
             THEN Returned("error" :> "insufficient data for seasonal analysis")
             ELSE Returned(
                    ("pollutant" :> pollutant)
                    @@ ("analysis_period" :> p)
                    @@ patterns_part(p, ts, pollutant)
                    @@ significance_part(p, ts, stats)))

---------------------------------------------------------------------------
(* data_manager: the outlier detectors *)

\* A standard deviation is the root of a ratio and is kept as its square,
\* the variance; a comparison with it is made between the squares.
\* The code compares float64 values.  Where the two sides of a comparison
\* differ in exact arithmetic, they differ by far more than the rounding
\* errors of a short series of readings in tenths, and the floats compare
\* as the exact values do.  Where the two sides are equal in exact
\* arithmetic, the rounding errors of mean(), std(), median() and
\* quantile(), which depend on the values and on the library's order of
\* operations, decide the comparison: its outcome is then an input, the
\* field of fp that belongs to the comparison.  Where float64 leaves no
\* room (a difference or a product that is 0), the outcome is fixed.
\* Left out of the MAD report: 'bounds', median -/+ threshold * mad, which
\* holds a root when the mad is taken from the standard deviation.
\* Error texts stand for the source's: "column not found" for
\* 'Колонка ... не найдена', "no data for analysis" for 'Нет данных для
\* анализа'.

\* working_data.dropna(subset=[col])
dropna_subset(rows, col) == SelectSeq(rows, LAMBDA row : col \in DOMAIN row)

\* working_data[col] of rows that all hold the column
column_values(rows, col) == listed([k \in 1..Len(rows) |-> rows[k][col]])

sort_ascending(values) == SortSeq(values, LAMBDA a, b : a < b)

\* Series.mean(): nan for no value
series_mean(values) == fraction(total(values, 1, Len(values)), Len(values))

\* the square of Series.std(), with ddof = 1: nan for fewer than two values
series_variance(values) ==
    bind(Len(values), LAMBDA n :
    bind(total(values, 1, n), LAMBDA s :
    bind(total([k \in 1..n |-> values[k] * values[k]], 1, n), LAMBDA q :
        IF n < 2 THEN nan ELSE fraction(n * q - s * s, n * (n - 1)))))

\* twice Series.median() of at least one integer value
twice_median(values) ==
    bind(sort_ascending(values), LAMBDA s :
        LET n == Len(s)
        IN  IF n % 2 = 1 THEN 2 * s[(n + 1) \div 2] ELSE s[n \div 2] + s[n \div 2 + 1])

\* Series.median()
series_median(values) ==
    IF Len(values) = 0 THEN nan ELSE fraction(twice_median(values), 2)

\* (working_data[col] - median).abs().median()
median_absolute_deviation(values) ==
    bind(twice_median(values), LAMBDA m2 :
        fraction(twice_median([k \in 1..Len(values) |-> abs(2 * values[k] - m2)]), 4))

\* x < y for ratios x, y > 0, by their continued fractions: no product is
\* formed
RECURSIVE below(_, _)
below(x, y) ==
    LET a == x.num \div x.den
        b == y.num \div y.den
        r == x.num % x.den
        s == y.num % y.den
    IN  IF a # b THEN a < b
        ELSE IF s = 0 THEN FALSE
        ELSE IF r = 0 THEN TRUE
        ELSE below([num |-> y.den, den |-> s], [num |-> x.den, den |-> r])

\* what float64 makes of the comparisons whose sides are equal in exact
\* arithmetic: cv of "cv > 1.0" and "cv > 0.5", lower of "value <
\* lower_bound" (and of "abs(z) > threshold" under the mean), upper of
\* "value > upper_bound" (and of "abs(z) > threshold" over the mean)
FpTies == [cv : BOOLEAN, lower : BOOLEAN, upper : BOOLEAN]

\* what a call can return, result(fp) over every fp.  The anomalies of a
\* call grow with fp.lower and fp.upper, and its threshold changes with
\* fp.cv when that comparison is tied: when taking no tie and taking every
\* tie give one result, no comparison of the call is tied and that result
\* is the only one.
float_outcomes(result(_)) ==
    bind(result([cv |-> FALSE, lower |-> FALSE, upper |-> FALSE]), LAMBDA none :
    bind(result([cv |-> TRUE, lower |-> TRUE, upper |-> TRUE]), LAMBDA every :
        IF none = every THEN {none} ELSE {result(fp) : fp \in FpTies}))

\* x > y in float64 for the exact values x and y
exceeds(x, y, tie) == IF less(y, x) THEN TRUE ELSE IF less(x, y) THEN FALSE ELSE tie

\* std() / mean() > a / b in float64: false for the nan of fewer than two
\* values and of 0 / 0, and for a negative mean; with a mean of 0 and a
\* standard deviation above 0 the sign of the computed mean decides
cv_above(values, a, b, tie) ==
    bind(total(values, 1, Len(values)), LAMBDA s :
    bind(series_variance(values), LAMBDA v :
        IF isnan(v) \/ s < 0 THEN FALSE
        ELSE IF s = 0 THEN v.num > 0 /\ tie
        ELSE exceeds(scaled(v, b * b),
                     fraction(s * s * a * a, Len(values) * Len(values)), tie)))

\* the thresholds in tenths: sensitivity_map, its default, and the choice
\* by the coefficient of variation for 'auto'
threshold_used(sensitivity, values, fp) ==
    CASE sensitivity = "auto" ->
            IF cv_above(values, 1, 1, fp.cv) THEN 35
            ELSE IF cv_above(values, 1, 2, fp.cv) THEN 28 ELSE 25
      [] sensitivity = "low"  -> 35
      [] sensitivity = "high" -> 25
      [] OTHER                -> 30

\* the variant of the fallback that takes the standard deviation as it is
mad_scale_one == [num |-> 1, den |-> 1]

\* 1.4826 as the ratio 7413 / 5000
mad_scale == [num |-> 7413, den |-> 5000]

\* x * x of a ratio in lowest terms
squared(x) == [num |-> x.num * x.num, den |-> x.den * x.den]

\* the variant that also takes a deviation equal to the bound
reaching_std(deviation, threshold, variance, tie) ==
    IF isnan(variance) THEN FALSE
    ELSE IF variance.num = 0 THEN TRUE
    ELSE IF deviation.num = 0 THEN FALSE
    ELSE bind(divided(variance, squared(deviation)), LAMBDA x :
         bind(squared(fraction(10 * mad_scale.num, threshold * mad_scale.den)),
              LAMBDA y : below(x, y) \/ ~below(y, x)))

\* deviation > threshold * (std / 1.4826) in float64 for a deviation >= 0,
\* that is, the value lies beyond median -/+ threshold * mad: false for a
\* nan standard deviation, and false for a deviation of 0 (median - t and
\* median + t never pass the median for a float t >= 0)
beyond_std(deviation, threshold, variance, tie) ==
    IF isnan(variance) \/ deviation.num = 0 THEN FALSE
    ELSE IF variance.num = 0 THEN TRUE
    ELSE bind(divided(variance, squared(deviation)), LAMBDA x :
         bind(squared(fraction(10 * mad_scale.num, threshold * mad_scale.den)),
              LAMBDA y : IF below(x, y) THEN TRUE ELSE IF below(y, x) THEN FALSE
                         ELSE tie))

\* anomalies_mask of detect_anomalies_mad: value < lower_bound or value >
\* upper_bound, the bounds at threshold * mad on either side of the median,
\* the mad replaced by std / 1.4826 when it is 0 (the float mad is 0
\* exactly when the exact one is: a difference of two floats is 0 only
\* when they are equal)
mad_mask(values, threshold, fp) ==
    bind(twice_median(values), LAMBDA m2 :
    bind(median_absolute_deviation(values), LAMBDA mad :
    bind(series_variance(values), LAMBDA v :
    bind(shared(scaled(mad, threshold), 10), LAMBDA reach :
        [k \in 1..Len(values) |->
            LET tie == IF 2 * values[k] < m2 THEN fp.lower ELSE fp.upper
            IN  IF mad.num # 0
                THEN exceeds(fraction(abs(2 * values[k] - m2), 2), reach, tie)
                ELSE beyond_std(fraction(abs(2 * values[k] - m2), 2), threshold, v,
                                tie)]))))

\* Series.quantile(q / 4): linear interpolation between the order statistics
quantile(values, q) ==
    bind(sort_ascending(values), LAMBDA s :
        LET n  == Len(s)
            lo == ((n - 1) * q) \div 4
            r  == ((n - 1) * q) % 4
        IN  IF r = 0 THEN whole(s[lo + 1])
            ELSE fraction(4 * s[lo + 1] + r * (s[lo + 2] - s[lo + 1]), 4))

\* lower and upper bound of detect_anomalies_iqr
iqr_bounds(values) ==
    bind(quantile(values, 1), LAMBDA q1 :
    bind(quantile(values, 3), LAMBDA q3 :
    bind(shared(scaled(minus(q3, q1), 3), 2), LAMBDA reach :
        [lower |-> minus(q1, reach), upper |-> plus(q3, reach)])))

\* anomalies_mask of detect_anomalies_iqr; with IQR = 0 the quartiles are
\* one reading and the bounds are that reading exactly
iqr_mask(values, fp) ==
    bind(iqr_bounds(values), LAMBDA bounds :
        [k \in 1..Len(values) |->
            \/ exceeds(bounds.lower, whole(values[k]),
                       fp.lower /\ bounds.lower # bounds.upper)
            \/ exceeds(whole(values[k]), bounds.upper,
                       fp.upper /\ bounds.lower # bounds.upper)])

\* abs(z_scores) > threshold, z = (value - mean) / std, for a threshold of
\* at least 1: false where the division gives nan, and false for every
\* value of a constant series, whose z-scores are nan or, when the
\* computed mean is off the values, all of the same size below 1
zscore_mask(values, threshold, fp) ==
    bind(Len(values), LAMBDA n :
    bind(total(values, 1, n), LAMBDA s :
    bind(series_variance(values), LAMBDA v :
        [k \in 1..n |->
            IF isnan(v) \/ n * values[k] = s THEN FALSE
            ELSE IF v.num = 0 THEN TRUE
            ELSE exceeds(fraction((n * values[k] - s) * (n * values[k] - s), n * n),
                         scaled(v, threshold * threshold),
                         IF n * values[k] < s THEN fp.lower ELSE fp.upper)])))

\* working_data[~anomalies_mask]
unmasked(rows, mask) ==
    bind(SelectSeq([k \in 1..Len(rows) |-> k], LAMBDA k : ~mask[k]), LAMBDA kept :
        listed([j \in 1..Len(kept) |-> rows[kept[j]]]))

flagged(mask) == Cardinality({k \in 1..Len(mask) : mask[k]})

\* (len(anomalies_data) / len(working_data)) * 100
anomaly_percentage(mask) == fraction(100 * flagged(mask), Len(mask))

---------------------------------------------------------------------------
(* The tables a caller holds *)

\* A table is a record of its columns and its rows; a row is a record that
\* lacks the columns it has no value for.  The tables alive during a call
\* are the elements of a store; the caller's table is the first.

frame(columns, rows) == [columns |-> columns, rows |-> rows]

\* the variant of a pandas call that works on the table it is given
derive_in_place(st, from, content) ==
    [store |-> [st EXCEPT ![from] = content], id |-> from]

\* a pandas call that returns a new table: copy(), dropna(), sort_values(),
\* data[[...]], data[mask]
derive(st, from, content) == [store |-> Append(st, content), id |-> Len(st) + 1]

\* table[name] = values: the table gets the column
assign(st, id, name, values) ==
    bind(st[id], LAMBDA table :
    bind(values, LAMBDA column :
        [st EXCEPT ![id] =
            frame(table.columns \cup {name},
                  listed([k \in 1..Len(table.rows) |->
                             (name :> column[k]) @@ table.rows[k]]))]))

\* what is alive after the call: the caller's table and the returned one
collect(st, returned, stats) ==
    IF returned = 1
    THEN [store |-> <<st[1]>>, returned |-> 1, stats |-> stats]
    ELSE [store |-> <<st[1], st[returned]>>, returned |-> 2, stats |-> stats]

\* the variant of the early return that hands back the emptied working table
no_data_working(st, working, with_count) ==
    collect(st, working,
            (IF with_count THEN "anomalies_detected" :> 0 ELSE << >>)
                @@ "error" :> "no data for analysis")

\* return data, {..., 'error': 'no data'}: the caller's own table
no_data(st, working, with_count) ==
    collect(st, 1,
            (IF with_count THEN "anomalies_detected" :> 0 ELSE << >>)
                @@ "error" :> "no data for analysis")

\* working_data = data.copy(); working_data = working_data.dropna(...)
working_data(st, col) ==
    LET copied == derive(st, 1, st[1])
    IN  derive(copied.store, copied.id,
               frame(copied.store[copied.id].columns,
                     dropna_subset(copied.store[copied.id].rows, col)))

\* clean_data = working_data[~anomalies_mask] and the report
cleaned(working, mask, stats) ==
    bind(mask, LAMBDA anomalies_mask :
    bind(derive(working.store, working.id,
                frame(working.store[working.id].columns,
                      unmasked(working.store[working.id].rows, anomalies_mask))),
         LAMBDA clean :
            collect(clean.store, clean.id,
                    "anomalies_detected" :> flagged(anomalies_mask)
                        @@ "anomaly_percentage" :> anomaly_percentage(anomalies_mask)
                        @@ stats)))

\* detect_anomalies_mad(data, pollutant_column, sensitivity)
detect_anomalies_mad(st, col, sensitivity, fp) ==
    IF col \notin st[1].columns
    THEN collect(st, 1, "anomalies_detected" :> 0 @@ "error" :> "column not found")
    ELSE bind(working_data(st, col), LAMBDA working :
         bind(column_values(working.store[working.id].rows, col), LAMBDA values :
            IF Len(values) = 0 THEN no_data(working.store, working.id, TRUE)
            ELSE bind(threshold_used(sensitivity, values, fp), LAMBDA threshold :
                    cleaned(working, mad_mask(values, threshold, fp),
                            "threshold_used" :> threshold
                                @@ "median" :> series_median(values)))))

\* detect_anomalies_iqr(data, pollutant_column)
detect_anomalies_iqr(st, col, fp) ==
    IF col \notin st[1].columns
    THEN collect(st, 1, "error" :> "column not found")
    ELSE bind(working_data(st, col), LAMBDA working :
         bind(column_values(working.store[working.id].rows, col), LAMBDA values :
            IF Len(values) = 0 THEN no_data(working.store, working.id, FALSE)
            ELSE cleaned(working, iqr_mask(values, fp), "bounds" :> iqr_bounds(values))))

\* detect_anomalies_zscore(data, pollutant_column, threshold)
detect_anomalies_zscore(st, col, threshold, fp) ==
    IF col \notin st[1].columns
    THEN collect(st, 1, "error" :> "column not found")
    ELSE bind(working_data(st, col), LAMBDA working :
         bind(column_values(working.store[working.id].rows, col), LAMBDA values :
            IF Len(values) = 0 THEN no_data(working.store, working.id, FALSE)
            ELSE cleaned(working, zscore_mask(values, threshold, fp),
                         "threshold_used" :> threshold)))

---------------------------------------------------------------------------
(* Inputs of the index specification *)

StrictlyIncreasing(b) == \A k \in 1..(Len(b) - 1) : b[k] < b[k + 1]

\* every strictly increasing table of 1..6 thresholds over 1..MaxBreakpoint
CustomTables ==
    {b \in UNION {[1..n -> 1..MaxBreakpoint] : n \in 1..6} : StrictlyIncreasing(b)}

DefaultTables == {default_breakpoints(PollutantOrder[k]) : k \in 1..Len(PollutantOrder)}

BreakpointTables == DefaultTables \cup CustomTables

ConcentrationRange(b) == (0 - Margin)..(b[Len(b)] + Margin)

\* the larger concentrations a reading c is compared with: its successor on
\* the grid, every breakpoint and the value right above it, and the top of
\* the range
HigherThan(c, b) ==
    {h \in {c + 1, b[Len(b)] + Margin}
             \cup {b[k] : k \in 1..Len(b)} \cup {b[k] + 1 : k \in 1..Len(b)} : h > c}

---------------------------------------------------------------------------
(* Values of the variables a specification does not use *)

IndexIdle ==
    /\ concentration = 0
    /\ higher = 0
    /\ breakpoints = << >>
    /\ aqi = 0
    /\ aqi_higher = 0

AqiIdle ==
    /\ data_columns = {}
    /\ data = << >>
    /\ pollutants_config = << >>
    /\ aqi_results = << >>

ForecastIdle ==
    /\ series = [columns |-> {}, points |-> 0, last_date |-> 0]
    /\ method = "hybrid"
    /\ forecast_horizon = 0
    /\ arima = [ok |-> FALSE, error |-> ""]
    /\ ensemble = [ok |-> FALSE, error |-> ""]
    /\ forecast_results = << >>
    /\ raised = "none"

TrendIdle ==
    /\ trend_data = [columns |-> {}, rows |-> << >>]
    /\ trend_method = "composite"
    /\ decomposition = [ok |-> FALSE, error |-> ""]
    /\ trend_results = << >>
    /\ trend_raised = "none"

SeasonalIdle ==
    /\ seasonal_data = [columns |-> {}, rows |-> << >>]
    /\ analysis_period = "daily"
    /\ scipy = [installed |-> FALSE]
    /\ seasonal_results = << >>
    /\ seasonal_raised = "none"

FramesIdle ==
    /\ store = << >>
    /\ snapshot = [columns |-> {}, rows |-> << >>]
    /\ call = [op |-> "none"]
    /\ returned_id = 0
    /\ report = << >>
    /\ call_raised = "none"

GuiIdle ==
    /\ gui_data = 0
    /\ gui_pc = "mainloop"
    /\ gui_step = 0
    /\ is_analyzing = FALSE
    /\ buttons_enabled = {}
    /\ analysis_thread = 0
    /\ pending_update = "unset"
    /\ threads = << >>
    /\ displayed = << >>
    /\ analysis_results = << >>
    /\ cancelled = {}
    /\ message = "none"
    /\ clicks = 0

SystemIdle ==
    /\ raw_data = << >>
    /\ system_results = << >>
    /\ system_raised = "none"

\* the data_manager, gui and main_system specifications are not running
LaterIdle == FramesIdle /\ GuiIdle /\ SystemIdle

---------------------------------------------------------------------------
(* Specification of single index calls *)

IndexInit ==
    /\ pc = "index_call"
    /\ breakpoints \in BreakpointTables
    /\ concentration \in ConcentrationRange(breakpoints)
    /\ higher \in HigherThan(concentration, breakpoints)
    /\ aqi = 0
    /\ aqi_higher = 0
    /\ AqiIdle
    /\ ForecastIdle
    /\ TrendIdle
    /\ SeasonalIdle
    /\ LaterIdle

\* two calls of calculate_single_aqi on the same table
CalculateSingleAqi ==
    /\ pc = "index_call"
    /\ \E fp1, fp2 \in FpError :
          /\ aqi' = calculate_single_aqi(concentration, breakpoints, fp1)
          /\ aqi_higher' = calculate_single_aqi(higher, breakpoints, fp2)
    /\ pc' = "index_done"
    /\ UNCHANGED <<concentration, higher, breakpoints>>
    /\ UNCHANGED <<aqiVars, forecastVars, trendVars, seasonalVars, laterVars>>

IndexNext == CalculateSingleAqi

SpecIndex == IndexInit /\ [][IndexNext]_vars

---------------------------------------------------------------------------
(* Properties of calculate_single_aqi, checked under SpecIndex *)

\* the smallest 1-based k with c <= b[k]
SmallestSegment(c, b) ==
    CHOOSE k \in 1..Len(b) : c <= b[k] /\ \A j \in 1..(k - 1) : c > b[j]

\* r is an integer nearest to
\* (s[k+1] - s[k]) / (b[k] - c_low) * (c - c_low) + s[k], segment k 1-based
NearestToFormula(r, c, b, k) ==
    LET c_low == IF k = 1 THEN 0 ELSE b[k - 1]
        den   == b[k] - c_low
        num   == (aqi_breakpoints[k + 1] - aqi_breakpoints[k]) * (c - c_low)
                     + aqi_breakpoints[k] * den
        d     == r * den - num
    IN  2 * d <= den /\ 2 * (0 - d) <= den

FollowsFormula(r, c, b) ==
    IF \A k \in 1..Len(b) : c > b[k]
    THEN r = 500
    ELSE NearestToFormula(r, c, b, SmallestSegment(c, b))

\* C1: the result of calculate_single_aqi(c, b) is the interpolation of the
\* first segment i with c <= b[i], between scale values s[i] and s[i+1] and
\* from c_low = b[i-1] (0 when i = 0), rounded to a nearest integer; it is
\* 500 when c exceeds every breakpoint.
C1_SingleAqiFormula ==
    pc = "index_done" =>
        /\ FollowsFormula(aqi, concentration, breakpoints)
        /\ FollowsFormula(aqi_higher, higher, breakpoints)

\* a reading inside the second segment of the PM2.5 table: 20.0 gives
\* 50 + 50/23.4 * 8.0 = 67.09, index 67
C1_Witness ==
    /\ pc = "index_done"
    /\ breakpoints = default_breakpoints("PM2.5")
    /\ concentration = 200
    /\ aqi = 67
    /\ higher > 2504
    /\ aqi_higher = 500

\* C2: for one breakpoint table, a larger concentration never gets a
\* smaller index, also across segment boundaries and across the step to
\* the ceiling of 500.
C2_Monotone ==
    pc = "index_done" => aqi <= aqi_higher

\* a pair that straddles the last breakpoint: the lower reading is in the
\* last segment, the higher one is above every breakpoint
C2_Witness ==
    /\ pc = "index_done"
    /\ Len(breakpoints) > 1
    /\ concentration > breakpoints[Len(breakpoints) - 1]
    /\ concentration <= breakpoints[Len(breakpoints)]
    /\ higher > breakpoints[Len(breakpoints)]
    /\ aqi < aqi_higher

\* C3: a concentration equal to breakpoint b[i] gets the scale value
\* s[i+1] (b[0] -> 50, b[1] -> 100, ...); PM2.5 = 35.4 gets 100.
C3_BoundaryValue ==
    pc = "index_done" =>
        /\ \A k \in 1..Len(breakpoints) :
              /\ concentration = breakpoints[k] => aqi = aqi_breakpoints[k + 1]
              /\ higher = breakpoints[k] => aqi_higher = aqi_breakpoints[k + 1]
        /\ (breakpoints = default_breakpoints("PM2.5") /\ concentration = 354)
              => aqi = 100

C3_Witness ==
    /\ pc = "index_done"
    /\ breakpoints = default_breakpoints("PM2.5")
    /\ concentration = 354
    /\ aqi = 100
    /\ higher = 2504
    /\ aqi_higher = 300


---------------------------------------------------------------------------
(* Inputs of the table specification *)

\* readings in tenths: -5.0, 35.4, 100.0, 300.0
Readings == {0 - 50, 354, 1000, 3000}

\* numeric_columns of load_environmental_data: the raw pollutant columns a
\* loaded table carries
numeric_columns == {"so2", "no2", "rspm", "spm", "pm2_5"}

\* column sets of the tables: named as the configuration names pollutants,
\* or as the loader leaves them
ColumnSets ==
    {{"PM2.5", "NO2"}, {"SO2", "CO"}, {"PM10"},
     {"so2", "no2"}, {"rspm", "pm2_5"}, {"spm"}}

\* a row gives a reading for some of the columns; the others are missing
Rows(columns) == UNION {[present -> Readings] : present \in SUBSET columns}

Tables(columns) == UNION {[1..n -> Rows(columns)] : n \in 0..MaxRows}

\* a caller's configuration: two of the pollutants, in another order
custom_config ==
    <<[name |-> "NO2", unit |-> "ppb", breakpoints |-> default_breakpoints("NO2")],
      [name |-> "PM2.5", unit |-> "ug/m3", breakpoints |-> default_breakpoints("PM2.5")]>>

Configs == {default_config, custom_config}

ConfigNames(config) == {config[k].name : k \in 1..Len(config)}

---------------------------------------------------------------------------
(* Specification of AQI calls on a table *)

AqiInit ==
    /\ pc = "aqi_call"
    /\ data_columns \in ColumnSets
    /\ data \in Tables(data_columns)
    /\ pollutants_config \in Configs
    /\ aqi_results = << >>
    /\ IndexIdle
    /\ ForecastIdle
    /\ TrendIdle
    /\ SeasonalIdle
    /\ LaterIdle

\* AirQualityAnalyzerGUI.calculate_aqi / a direct call:
\* result = compute_air_quality_index(data, pollutants_config)
ComputeAirQualityIndex ==
    /\ pc = "aqi_call"
    /\ \E fp \in [ConfigNames(pollutants_config) \cap data_columns -> FpError] :
          aqi_results' = compute_air_quality_index(data_columns, data,
                                                   pollutants_config, fp)
    /\ pc' = "aqi_done"
    /\ UNCHANGED <<data_columns, data, pollutants_config>>
    /\ UNCHANGED <<indexVars, forecastVars, trendVars, seasonalVars, laterVars>>

AqiNext == ComputeAirQualityIndex

SpecAqi == AqiInit /\ [][AqiNext]_vars

---------------------------------------------------------------------------
(* Properties of compute_air_quality_index, checked under SpecAqi *)

\* the pollutants that got a record
Recorded == DOMAIN aqi_results \ {"overall"}

\* the 1-based rows of data that hold a reading of column col
RowsWith(col) == {k \in 1..Len(data) : col \in DOMAIN data[k]}

LastRowWith(col) == CHOOSE k \in RowsWith(col) : \A j \in RowsWith(col) : j <= k

RECURSIVE SumOver(_, _)
SumOver(col, ks) ==
    IF ks = {} THEN 0
    ELSE LET k == CHOOSE k \in ks : TRUE
         IN  data[k][col] + SumOver(col, ks \ {k})

ConfigEntry(p) ==
    CHOOSE e \in {pollutants_config[k] : k \in 1..Len(pollutants_config)} : e.name = p

ConfigPosition(p) ==
    CHOOSE k \in 1..Len(pollutants_config) : pollutants_config[k].name = p

\* C4: every index of the result, per pollutant and overall, is an integer
\* in 0..500, whatever readings the table holds.
C4_IndexInRange ==
    pc = "aqi_done" =>
        \A key \in DOMAIN aqi_results : aqi_results[key].aqi \in 0..500

\* C5 as stated: the concentration of a pollutant's record is the mean of
\* all its non-missing readings.
C5_MeanOfReadings ==
    pc = "aqi_done" =>
        \A p \in Recorded :
            aqi_results[p].concentration * Cardinality(RowsWith(p))
                = SumOver(p, RowsWith(p))

\* C5 amended: the concentration of a pollutant's record is its last
\* non-missing reading in row order, and the record's index is the index
\* of that reading alone.
C5_LastReading ==
    pc = "aqi_done" =>
        \A p \in Recorded :
            /\ aqi_results[p].concentration = data[LastRowWith(p)][p]
            /\ FollowsFormula(aqi_results[p].aqi, data[LastRowWith(p)][p],
                              ConfigEntry(p).breakpoints)

\* two different readings of one pollutant, the later one used
C5_Witness ==
    /\ pc = "aqi_done"
    /\ Len(data) = 2
    /\ "PM2.5" \in DOMAIN data[1] /\ data[1]["PM2.5"] = 3000
    /\ "PM2.5" \in DOMAIN data[2] /\ data[2]["PM2.5"] = 354
    /\ "PM2.5" \in Recorded
    /\ aqi_results["PM2.5"].concentration = 354
    /\ aqi_results["PM2.5"].aqi = 100

\* C6: in a non-empty result, overall.aqi is the largest per-pollutant
\* index, overall.dominant_pollutant is the first pollutant of the
\* configuration's order whose index is that maximum, and overall's
\* category and color are that pollutant's.
C6_OverallIsMax ==
    (pc = "aqi_done" /\ aqi_results # << >>) =>
        /\ "overall" \in DOMAIN aqi_results
        /\ LET overall == aqi_results["overall"]
               top     == {p \in Recorded : aqi_results[p].aqi = overall.aqi}
           IN  /\ \A p \in Recorded : aqi_results[p].aqi <= overall.aqi
               /\ overall.dominant_pollutant \in top
               /\ \A p \in top :
                     ConfigPosition(overall.dominant_pollutant) <= ConfigPosition(p)
               /\ overall.category = aqi_results[overall.dominant_pollutant].category
               /\ overall.color = aqi_results[overall.dominant_pollutant].color

\* two pollutants share the maximum
C6_Witness ==
    /\ pc = "aqi_done"
    /\ \E p, q \in Recorded :
          /\ p # q
          /\ aqi_results[p].aqi = aqi_results[q].aqi
          /\ aqi_results["overall"].aqi = aqi_results[p].aqi
          /\ aqi_results["overall"].dominant_pollutant = p

SixAdvices ==
    {"advice: Good", "advice: Moderate", "advice: UnhealthySensitive",
     "advice: Unhealthy", "advice: VeryUnhealthy", "advice: Hazardous"}

InBand(r, low, high, category, color) ==
    (low < r.aqi /\ r.aqi <= high) => (r.category = category /\ r.color = color)

\* C7: every record's index lies in exactly one band, <=50 Good/green,
\* <=100 Moderate/yellow, <=150 Unhealthy-for-sensitive/orange, <=200
\* Unhealthy/red, <=300 Very-unhealthy/purple, above Hazardous/maroon, and
\* its advice is the one of the six strings that belongs to its category,
\* never the fallback.
C7_BandsAndAdvice ==
    pc = "aqi_done" =>
        \A p \in Recorded :
            LET r == aqi_results[p]
            IN  /\ r.aqi <= 50 => (r.category = "Good" /\ r.color = "green")
                /\ InBand(r, 50, 100, "Moderate", "yellow")
                /\ InBand(r, 100, 150, "UnhealthySensitive", "orange")
                /\ InBand(r, 150, 200, "Unhealthy", "red")
                /\ InBand(r, 200, 300, "VeryUnhealthy", "purple")
                /\ r.aqi > 300 => (r.category = "Hazardous" /\ r.color = "maroon")
                /\ r.health_advice \in SixAdvices
                /\ r.health_advice = "advice: " \o r.category

\* an index on a band's upper edge and one in the open top band
C7_Witness ==
    /\ pc = "aqi_done"
    /\ \E p, q \in Recorded :
          /\ aqi_results[p].aqi = 100 /\ aqi_results[p].category = "Moderate"
          /\ aqi_results[q].aqi = 500 /\ aqi_results[q].category = "Hazardous"

\* the configured pollutants that have a column with a non-missing reading
Usable ==
    {p \in ConfigNames(pollutants_config) : p \in data_columns /\ RowsWith(p) # {}}

\* C8: with no configured pollutant that has a column and a non-missing
\* reading, the call returns the empty result; and an overall record
\* exists exactly when a per-pollutant record does.
C8_EmptyResult ==
    pc = "aqi_done" =>
        /\ Usable = {} => aqi_results = << >>
        /\ "overall" \in DOMAIN aqi_results <=> Recorded # {}
        /\ Recorded = Usable

\* a table with readings, none of them of a configured pollutant
C8_Witness ==
    /\ pc = "aqi_done"
    /\ Len(data) > 0
    /\ \E col \in data_columns : RowsWith(col) # {}
    /\ Usable = {}
    /\ aqi_results = << >>

\* the standardized pollutant a raw loader column stands for
StandardName(col) ==
    CASE col = "so2"   -> "SO2"
      [] col = "no2"   -> "NO2"
      [] col = "pm2_5" -> "PM2.5"
      [] col = "rspm"  -> "PM10"
      [] col = "spm"   -> "PM10"

\* C9: a table whose pollutant columns carry the loader's raw names and
\* hold data gets a record for the standardized pollutant of each such
\* column that the configuration names.
C9_RawNamesAliased ==
    pc = "aqi_done" =>
        \A col \in data_columns \cap numeric_columns :
            (RowsWith(col) # {} /\ StandardName(col) \in ConfigNames(pollutants_config))
                => StandardName(col) \in Recorded

---------------------------------------------------------------------------
(* Inputs of the forecast specification *)

\* the target pollutant: the GUI's default selection
Target == "so2"

\* the columns a time-series call looks for
SeriesColumns == SUBSET {"timestamp", "date", Target}

\* row counts around the limits of the code: 48 rows, 100 feature rows
PointCounts == {47, 48, 123, 124, 125}

LastDates == {23}

Methods == {"arima", "ensemble", "hybrid", "other"}

\* sub-method outputs, in twentieths: 1.0, 3.5
ForecastValues == {20, 70}

Outcomes(horizon) ==
    {[ok |-> TRUE, values |-> v] : v \in [1..horizon -> ForecastValues]}
        \cup {[ok |-> FALSE, error |-> "fit failed"]}

---------------------------------------------------------------------------
(* Specification of forecast calls *)

ForecastInit ==
    /\ pc = "forecast_call"
    /\ series \in [columns : SeriesColumns, points : PointCounts, last_date : LastDates]
    /\ method \in Methods
    /\ forecast_horizon \in 1..MaxHorizon
    /\ arima \in Outcomes(forecast_horizon)
    /\ ensemble \in Outcomes(forecast_horizon)
    /\ forecast_results = << >>
    /\ raised = "none"
    /\ IndexIdle
    /\ AqiIdle
    /\ TrendIdle
    /\ SeasonalIdle
    /\ LaterIdle

\* result = predict_future_levels(data, pollutant, forecast_horizon, method)
PredictFutureLevels ==
    /\ pc = "forecast_call"
    /\ LET out == predict_future_levels(series, Target, forecast_horizon,
                                         method, arima, ensemble)
       IN  /\ forecast_results' = out.result
           /\ raised' = out.raised
    /\ pc' = "forecast_done"
    /\ UNCHANGED <<series, method, forecast_horizon, arima, ensemble>>
    /\ UNCHANGED <<indexVars, aqiVars, trendVars, seasonalVars, laterVars>>

ForecastNext == PredictFutureLevels

SpecForecast == ForecastInit /\ [][ForecastNext]_vars

---------------------------------------------------------------------------
(* Properties of predict_future_levels, checked under SpecForecast *)

Has(key) == key \in DOMAIN forecast_results

\* the call got past the input checks and ran the sub-methods
RanSubMethods ==
    /\ pc = "forecast_done"
    /\ {"timestamp", Target} \subseteq series.columns
    /\ series.points >= 48

\* the sub-methods that were run and returned a forecast; the ensemble is
\* run when more than 100 rows are left of the series after its first 24
Succeeded ==
    {name \in {"arima"} : method \in {"arima", "hybrid"} /\ arima.ok}
        \cup {name \in {"ensemble"} :
                  /\ method \in {"ensemble", "hybrid"}
                  /\ series.points - 24 > 100
                  /\ ensemble.ok}

OutputOf(name) == IF name = "arima" THEN arima.values ELSE ensemble.values

\* C10: with two successful sub-methods final_forecast is their mean at
\* every step and method_used is 'hybrid'; with one, final_forecast is that
\* sub-method's output and method_used names it; with none the result has
\* an error and no final_forecast.
C10_Combination ==
    RanSubMethods =>
        /\ raised = "none"
        /\ Cardinality(Succeeded) >= 2 =>
              /\ ~Has("error")
              /\ forecast_results["method_used"] = "hybrid"
              /\ Len(forecast_results["final_forecast"]) = forecast_horizon
              /\ \A k \in 1..forecast_horizon :
                    2 * forecast_results["final_forecast"][k]
                        = arima.values[k] + ensemble.values[k]
        /\ Cardinality(Succeeded) = 1 =>
              /\ ~Has("error")
              /\ forecast_results["method_used"] \in Succeeded
              /\ forecast_results["final_forecast"]
                    = OutputOf(forecast_results["method_used"])
        /\ Succeeded = {} =>
              /\ Has("error")
              /\ ~Has("final_forecast")
              /\ ~Has("method_used")

\* both sub-methods succeeded with different values at a step
C10_Witness ==
    /\ RanSubMethods
    /\ Succeeded = {"arima", "ensemble"}
    /\ arima.values[1] = 20
    /\ ensemble.values[1] = 70
    /\ forecast_results["final_forecast"][1] = 45
    /\ forecast_results["method_used"] = "hybrid"

---------------------------------------------------------------------------
(* Inputs of the trend and seasonal specifications *)

\* the layouts of a table: rows in time order, rows in reverse time order,
\* and rows in time order between a row without a reading and a row
\* without a timestamp
Layouts == {"sorted", "reversed", "gaps"}

\* the table with the columns cols that holds reading vals[k] at hour
\* times[k]; a 'date' column carries the same instants as 'timestamp'
table_of(cols, times, vals, layout) ==
    LET n       == Len(vals)
        rows    == [k \in 1..n |->
                       [c \in cols |-> IF c = Target THEN vals[k] ELSE times[k]]]
        untimed == [c \in cols \cap {Target} |-> vals[1]]
        unread  == [c \in cols \ {Target} |-> times[n] + (times[n] - times[1]) + 1]
    IN  [columns |-> cols,
         rows |-> CASE layout = "sorted"   -> rows
                    [] layout = "reversed" -> [k \in 1..n |-> rows[n + 1 - k]]
                    [] layout = "gaps"     -> <<unread>> \o rows \o <<untimed>>]

\* row counts around the limits of calculate_pollution_trend: 10 rows,
\* windows of 1 and 2 rows, 50 rows and more for the decomposition
TrendCounts == {9, 10, 20, 49, 50, 51}

\* 0.0 and 42.0
Levels == {0, 420}

\* a reading that stands 1.0 above its neighbours, or none
Bumps == {0, 10}

\* reading k of n: a level, a rise or fall of half a unit times step per
\* row that ends or starts one step off the level, and a bump in the middle
trend_value(n, level, step, bump, k) ==
    level + (IF step >= 0 THEN 5 * step * k ELSE 5 * (0 - step) * (n + 1 - k))
          + (IF k = n \div 2 + 1 THEN bump ELSE 0)

TrendTables ==
    {table_of(cols, [k \in 1..n |-> k - 1],
              [k \in 1..n |-> trend_value(n, level, step, bump, k)], layout) :
        cols \in SeriesColumns, n \in TrendCounts, level \in Levels,
        step \in (0 - MaxStep)..MaxStep, bump \in Bumps, layout \in Layouts}

TrendMethods == {"linear", "moving_avg", "decomposition", "composite", "other"}

DecompositionOutcomes == {[ok |-> TRUE], [ok |-> FALSE, error |-> "decomposition failed"]}

\* row counts around 24 and 168
SeasonalCounts == {23, 24, 167, 168, 170}

\* hours between two rows: hourly and daily data
Cadences == {1, 24}

\* the grouping does not read the row order: rows in time order, or with
\* incomplete rows around them
SeasonalLayouts == {"sorted", "gaps"}

\* the reading at hour t: 42.0, higher at 07:00 and at 18:00
seasonal_value(t, high7, high18) ==
    420 + (IF hour(t) = 7 THEN 10 * high7 ELSE 0)
        + (IF hour(t) = 18 THEN 10 * high18 ELSE 0)

SeasonalTables ==
    {table_of(cols, [k \in 1..n |-> cadence * (k - 1)],
              [k \in 1..n |-> seasonal_value(cadence * (k - 1), high7, high18)],
              layout) :
        cols \in SeriesColumns, n \in SeasonalCounts, cadence \in Cadences,
        high7 \in 0..MaxPeak, high18 \in 0..MaxPeak, layout \in SeasonalLayouts}

Periods == {"daily", "weekly", "monthly", "other"}

\* scipy missing; or f_oneway returning F = 4, p = 0.01; F = 1, p = 0.5;
\* nan, nan
ScipyOutcomes ==
    {[installed |-> FALSE],
     [installed |-> TRUE, f_stat |-> whole(4), p_value |-> fraction(1, 100)],
     [installed |-> TRUE, f_stat |-> whole(1), p_value |-> fraction(1, 2)],
     [installed |-> TRUE, f_stat |-> nan, p_value |-> nan]}

---------------------------------------------------------------------------
(* Specification of trend calls *)

TrendInit ==
    /\ pc = "trend_call"
    /\ trend_data \in TrendTables
    /\ trend_method \in TrendMethods
    /\ decomposition \in DecompositionOutcomes
    /\ trend_results = << >>
    /\ trend_raised = "none"
    /\ IndexIdle
    /\ AqiIdle
    /\ ForecastIdle
    /\ SeasonalIdle
    /\ LaterIdle

\* result = calculate_pollution_trend(data, pollutant, method)
CalculatePollutionTrend ==
    /\ pc = "trend_call"
    /\ \E out \in {calculate_pollution_trend(trend_data, Target, trend_method,
                                               decomposition)} :
          /\ trend_results' = out.result
          /\ trend_raised' = out.raised
    /\ pc' = "trend_done"
    /\ UNCHANGED <<trend_data, trend_method, decomposition>>
    /\ UNCHANGED <<indexVars, aqiVars, forecastVars, seasonalVars, laterVars>>

TrendNext == CalculatePollutionTrend

SpecTrend == TrendInit /\ [][TrendNext]_vars

---------------------------------------------------------------------------
(* Specification of seasonal calls *)

SeasonalInit ==
    /\ pc = "seasonal_call"
    /\ seasonal_data \in SeasonalTables
    /\ analysis_period \in Periods
    /\ scipy \in ScipyOutcomes
    /\ seasonal_results = << >>
    /\ seasonal_raised = "none"
    /\ IndexIdle
    /\ AqiIdle
    /\ ForecastIdle
    /\ TrendIdle
    /\ LaterIdle

\* result = analyze_seasonal_patterns(data, pollutant, period)
AnalyzeSeasonalPatterns ==
    /\ pc = "seasonal_call"
    /\ \E out \in {analyze_seasonal_patterns(seasonal_data, Target,
                                               analysis_period, scipy)} :
          /\ seasonal_results' = out.result
          /\ seasonal_raised' = out.raised
    /\ pc' = "seasonal_done"
    /\ UNCHANGED <<seasonal_data, analysis_period, scipy>>
    /\ UNCHANGED <<indexVars, aqiVars, forecastVars, trendVars, laterVars>>

SeasonalNext == AnalyzeSeasonalPatterns

SpecSeasonal == SeasonalInit /\ [][SeasonalNext]_vars

---------------------------------------------------------------------------
(* Specification of the three time-series operations together *)

SeriesInit == TrendInit \/ ForecastInit \/ SeasonalInit

SeriesNext == CalculatePollutionTrend \/ PredictFutureLevels \/ AnalyzeSeasonalPatterns

SpecSeries == SeriesInit /\ [][SeriesNext]_vars

---------------------------------------------------------------------------
(* Properties of the three time-series operations, checked under SpecSeries *)

\* the rows of a table that hold a reading of the target
TargetRows(table) ==
    Cardinality({k \in 1..Len(table.rows) : Target \in DOMAIN table.rows[k]})

\* the rows that hold a reading and a timestamp
CompleteRows(table) ==
    Cardinality({k \in 1..Len(table.rows) :
                    {"timestamp", Target} \subseteq DOMAIN table.rows[k]})

\* the trend call got past its input checks
TrendRan ==
    /\ pc = "trend_done"
    /\ {"timestamp", Target} \subseteq trend_data.columns
    /\ CompleteRows(trend_data) >= 10

InTrend(key) == key \in DOMAIN trend_results

\* C11: a failing ARIMA fit leaves its reason in the forecast result and the
\* ensemble still runs and can give the final forecast; a failing seasonal
\* decomposition leaves its reason as decomposition_error and the linear,
\* moving-average and composite results are still returned; neither failure
\* leaves the call as an exception.
C11_FailuresIsolated ==
    /\ RanSubMethods =>
          /\ raised = "none"
          /\ (method \in {"arima", "hybrid"} /\ ~arima.ok) =>
                /\ Has("arima_error")
                /\ forecast_results["arima_error"] = arima.error
                /\ (method = "hybrid" /\ series.points - 24 > 100) =>
                      (Has("ensemble_features_used") \/ Has("ensemble_error"))
                /\ (method = "hybrid" /\ series.points - 24 > 100 /\ ensemble.ok) =>
                      /\ forecast_results["final_forecast"] = ensemble.values
                      /\ forecast_results["method_used"] = "ensemble"
          /\ (method \in {"ensemble", "hybrid"} /\ series.points - 24 > 100
                  /\ ~ensemble.ok) =>
                /\ Has("ensemble_error")
                /\ forecast_results["ensemble_error"] = ensemble.error
    /\ TrendRan =>
          /\ trend_raised = "none"
          /\ (trend_method \in {"decomposition", "composite"}
                  /\ CompleteRows(trend_data) >= 50 /\ ~decomposition.ok) =>
                /\ InTrend("decomposition_error")
                /\ trend_results["decomposition_error"] = decomposition.error
                /\ ~InTrend("decomposition")
                /\ ~InTrend("error")
                /\ trend_method = "composite" =>
                      /\ InTrend("linear_trend")
                      /\ InTrend("moving_avg")
                      /\ InTrend("composite_trend")
                      /\ Len(trend_results["composite_trend"])
                            = CompleteRows(trend_data)
                      /\ InTrend("overall_direction")

\* a hybrid forecast whose ARIMA fit failed and whose ensemble gave the
\* final forecast
C11_Witness ==
    /\ RanSubMethods
    /\ method = "hybrid"
    /\ ~arima.ok
    /\ ensemble.ok
    /\ Has("arima_error")
    /\ Has("final_forecast")
    /\ forecast_results["method_used"] = "ensemble"

\* the result is an error and nothing else, and nothing was raised
ErrorOnly(results, exception, reason) ==
    /\ exception = "none"
    /\ DOMAIN results = {"error"}
    /\ results["error"] = reason

\* C12: on a table that has the timestamp column, each operation returns a
\* result that holds an error reason and nothing else, and raises nothing,
\* when the target column is absent (the reason is then the missing
\* column, whatever the row count) or when fewer rows hold a target reading
\* than the operation's minimum: 10 for the trend, 48 for the forecast, 24
\* for the seasonal analysis.
C12_ShortSeriesRefused ==
    /\ (pc = "trend_done" /\ "timestamp" \in trend_data.columns) =>
          /\ Target \notin trend_data.columns =>
                ErrorOnly(trend_results, trend_raised, "pollutant not found in data")
          /\ (Target \in trend_data.columns /\ TargetRows(trend_data) < 10) =>
                ErrorOnly(trend_results, trend_raised,
                          "insufficient data for trend analysis")
    /\ (pc = "forecast_done" /\ "timestamp" \in series.columns) =>
          /\ Target \notin series.columns =>
                ErrorOnly(forecast_results, raised, "pollutant not found")
          /\ (Target \in series.columns /\ series.points < 48) =>
                ErrorOnly(forecast_results, raised, "insufficient data")
    /\ (pc = "seasonal_done" /\ "timestamp" \in seasonal_data.columns) =>
          /\ Target \notin seasonal_data.columns =>
                ErrorOnly(seasonal_results, seasonal_raised, "pollutant not found")
          /\ (Target \in seasonal_data.columns /\ TargetRows(seasonal_data) < 24) =>
                ErrorOnly(seasonal_results, seasonal_raised,
                          "insufficient data for seasonal analysis")

\* a trend call on nine readings
C12_Witness ==
    /\ pc = "trend_done"
    /\ {"timestamp", Target} \subseteq trend_data.columns
    /\ TargetRows(trend_data) = 9
    /\ trend_raised = "none"
    /\ trend_results = ("error" :> "insufficient data for trend analysis")

\* C13: on a table without the 'timestamp' column, such as a loaded table
\* that still calls it 'date', each of the three operations returns a
\* result with an error reason and raises nothing.
C13_MissingTimestampReturned ==
    /\ (pc = "trend_done" /\ "timestamp" \notin trend_data.columns) =>
          (trend_raised = "none" /\ InTrend("error"))
    /\ (pc = "forecast_done" /\ "timestamp" \notin series.columns) =>
          (raised = "none" /\ Has("error"))
    /\ (pc = "seasonal_done" /\ "timestamp" \notin seasonal_data.columns) =>
          (seasonal_raised = "none" /\ "error" \in DOMAIN seasonal_results)

---------------------------------------------------------------------------
(* Properties of analyze_seasonal_patterns, checked under SpecSeasonal *)

InSeasonal(key) == key \in DOMAIN seasonal_results

\* C14: a series of at least 24 rows with a reading, on a table with both
\* columns, gets a seasonal summary and not an error.
C14_TwentyFourRowsAccepted ==
    (/\ pc = "seasonal_done"
     /\ {"timestamp", Target} \subseteq seasonal_data.columns
     /\ CompleteRows(seasonal_data) >= 24) =>
        /\ seasonal_raised = "none"
        /\ ~InSeasonal("error")
        /\ InSeasonal("analysis_period")

\* the seasonal call returned a summary
SeasonalSummary ==
    /\ pc = "seasonal_done"
    /\ seasonal_raised = "none"
    /\ seasonal_results # << >>
    /\ ~InSeasonal("error")

\* C19: for period 'daily' the summary has a peak hour; its concentration
\* is the largest 'mean' of hourly_patterns, and its hour is the hour of an
\* entry of hourly_patterns whose mean is that maximum.
C19_PeakIsMaximum ==
    (SeasonalSummary /\ analysis_period = "daily") =>
        /\ InSeasonal("peak_hour")
        /\ InSeasonal("hourly_patterns")
        /\ LET peak  == seasonal_results["peak_hour"]
               hours == seasonal_results["hourly_patterns"]
           IN  /\ \A i \in 1..Len(hours) :
                     ~less(peak.concentration, hours[i]["mean"])
               /\ \E i \in 1..Len(hours) :
                     /\ hours[i]["hour"] = peak.hour
                     /\ hours[i]["mean"] = peak.concentration

\* a week of hourly readings that are highest at 18:00: the peak is 43.0 at
\* hour 18
C19_Witness ==
    /\ SeasonalSummary
    /\ analysis_period = "daily"
    /\ Len(seasonal_results["hourly_patterns"]) = 24
    /\ seasonal_results["peak_hour"] = [hour |-> 18, concentration |-> whole(430)]
    /\ seasonal_results["hourly_patterns"][1]["mean"] = whole(420)

\* C20: every summary, whatever the period type, holds the basic
\* statistics (mean, std, min, max, count) of the whole cleaned series; the
\* display reads them under 'basic_stats'.
C20_BasicStatistics ==
    SeasonalSummary => InSeasonal("basic_stats")

---------------------------------------------------------------------------
(* Properties of calculate_pollution_trend, checked under SpecTrend *)

\* the trend call returned a composite trend
Composite ==
    /\ TrendRan
    /\ trend_method = "composite"
    /\ InTrend("composite_trend")

\* the values the sub-methods have at position k
ValuesAt(k) ==
    <<trend_results["linear_trend"].values[k],
      trend_results["moving_avg"].values[k]>>
        \o (IF InTrend("decomposition")
            THEN <<trend_results["decomposition"].trend[k]>> ELSE << >>)

RECURSIVE SumOf(_)
SumOf(values) ==
    IF values = << >> THEN whole(0) ELSE plus(Head(values), SumOf(Tail(values)))

\* the mean of the values that are not missing
MeanOfDefined(values) ==
    LET defined == SelectSeq(values, LAMBDA v : ~isnan(v))
    IN  shared(SumOf(defined), Len(defined))

\* C15: with method 'composite' the composite trend at every position is
\* the mean of the values the linear trend, the moving average and the
\* decomposition trend have there, a missing value left out of the sum and
\* of the count.
C15_CompositeIsMean ==
    Composite =>
        \A k \in 1..Len(trend_results["composite_trend"]) :
            trend_results["composite_trend"][k] = MeanOfDefined(ValuesAt(k))

FirstComposite == trend_results["composite_trend"][1]

LastComposite ==
    trend_results["composite_trend"][Len(trend_results["composite_trend"])]

\* C16: change_percentage is (last - first) / first * 100 over the first
\* and last composite values and 0 when the first is 0; it is a finite
\* number, and the call raises nothing.
C16_PercentChange ==
    Composite =>
        /\ trend_raised = "none"
        /\ InTrend("change_percentage")
        /\ trend_results["change_percentage"].den # 0
        /\ FirstComposite.num = 0 => trend_results["change_percentage"] = whole(0)
        /\ FirstComposite.num # 0 =>
              trend_results["change_percentage"]
                  = scaled(divided(minus(LastComposite, FirstComposite),
                                   FirstComposite), 100)

\* every reading of the cleaned series is c
ConstantSeries(c) ==
    \A k \in 1..Len(trend_data.rows) :
        {"timestamp", Target} \subseteq DOMAIN trend_data.rows[k]
            => trend_data.rows[k][Target] = c

\* C17: overall_direction is 'rise' exactly when the last composite value
\* is above the first, 'fall' exactly when it is below, 'stable' otherwise;
\* and a series of 10 equal readings has that reading as its composite at
\* every position, direction 'stable' and change_percentage 0.
C17_Direction ==
    Composite =>
        /\ trend_results["overall_direction"] = "rise"
              <=> less(FirstComposite, LastComposite)
        /\ trend_results["overall_direction"] = "fall"
              <=> less(LastComposite, FirstComposite)
        /\ trend_results["overall_direction"] = "stable"
              <=> FirstComposite = LastComposite
        /\ \A c \in Levels :
              (CompleteRows(trend_data) = 10 /\ ConstantSeries(c)) =>
                  /\ \A k \in 1..10 : trend_results["composite_trend"][k] = whole(c)
                  /\ trend_results["overall_direction"] = "stable"
                  /\ trend_results["change_percentage"] = whole(0)

\* the decomposition ran, or failed and left its reason
DecompositionAttempted == InTrend("decomposition") \/ InTrend("decomposition_error")

\* the positions at which a centered moving average of window p has no value
\* in a series of n rows
EdgePositions(n, p) == {k \in 1..n : k <= p \div 2 \/ k > n - p \div 2}

\* C26: the seasonal decomposition is attempted exactly when the method is
\* 'decomposition' or 'composite' and the cleaned series has at least 50
\* rows; the period it is given is min(24, count // 2), which is no more
\* than the row count, and the trend it returns is missing exactly on the
\* half period at either end.
C26_DecompositionPeriod ==
    TrendRan =>
        LET n == CompleteRows(trend_data)
        IN  /\ DecompositionAttempted
                  <=> (trend_method \in {"decomposition", "composite"} /\ n >= 50)
            /\ DecompositionAttempted =>
                  /\ period = min(24, n \div 2)
                  /\ period <= n
            /\ InTrend("decomposition") =>
                  /\ Len(trend_results["decomposition"].trend) = n
                  /\ \A k \in 1..n :
                        isnan(trend_results["decomposition"].trend[k])
                            <=> k \in EdgePositions(n, min(24, n \div 2))

\* a decomposition of 51 rows with period 24: a trend from row 13 to row 39
C26_Witness ==
    /\ TrendRan
    /\ trend_method = "decomposition"
    /\ CompleteRows(trend_data) = 51
    /\ InTrend("decomposition")
    /\ ~isnan(trend_results["decomposition"].trend[13])
    /\ ~isnan(trend_results["decomposition"].trend[39])
    /\ isnan(trend_results["decomposition"].trend[40])

---------------------------------------------------------------------------
(* A property of predict_future_levels, checked under SpecForecast *)

\* C18: the ensemble is trained and used exactly when at least 100 rows
\* have complete features (the rows of the series but its first 24); with
\* 100 such rows it runs, with 99 it is skipped and records no error.
C18_EnsembleFromHundredRows ==
    (RanSubMethods /\ method \in {"ensemble", "hybrid"}) =>
        /\ series.points - 24 >= 100 <=>
              (Has("ensemble_features_used") \/ Has("ensemble_error"))
        /\ (series.points - 24 = 100 /\ ensemble.ok) =>
              "ensemble" \in DOMAIN forecast_results["all_predictions"]
        /\ series.points - 24 = 99 =>
              (~Has("ensemble_features_used") /\ ~Has("ensemble_error"))

---------------------------------------------------------------------------
(* Inputs of the table-holding specification *)

\* readings of the target column, in tenths: 0.0, 4.2, 420.0 (a hundred
\* times 4.2)
CleanValues == {0, 42, 4200}

\* the most rows of a small table
MaxClean == 4

\* a small table: so2 read or missing (a negative entry) in each row, no2
\* read in every row
clean_table(so2) ==
    frame({Target, "no2"},
          [k \in 1..Len(so2) |->
              IF so2[k] < 0 THEN "no2" :> 10 * k
              ELSE (Target :> so2[k]) @@ ("no2" :> 10 * k)])

\* the medians of the series with one reading a hundred times the others:
\* 0.1, 0.3 and 4.2
OutlierMedians == {1, 3, 42}

\* n >= 3 readings, all m but the one at some place, which is 100 * m
OutlierSeries ==
    UNION {{[k \in 1..n |-> IF k = place THEN 100 * m ELSE m] : place \in 1..n} :
              m \in OutlierMedians, n \in 3..MaxClean}

\* series on which a comparison of a detector has equal sides in exact
\* arithmetic: cv = 1.0 (the second with a median absolute deviation of
\* 0), a reading on the lower bound of the MAD detector at threshold 2.5,
\* a reading on the upper bound of the IQR detector, z-scores of -1 and 1
TiedSeries ==
    {<<0, 7, 14>>, <<3, 3, 3, 15>>, <<0, 5, 7>>, <<0, 3, 3, 7, 13>>, <<6, 7, 8>>}

CleanTables ==
    {clean_table(so2) :
        so2 \in UNION {[1..n -> CleanValues \cup {0 - 1}] : n \in 0..MaxClean}
                   \cup OutlierSeries \cup TiedSeries}

\* tables that lack the target column
OtherTables == {frame({"no2"}, [k \in 1..n |-> "no2" :> 10 * k]) : n \in 0..1}

\* the reading at hour t of a long table: 0.4, and 0.5 at 07:00 and at 18:00
wide_value(t) == 4 + (IF hour(t) \in {7, 18} THEN 1 ELSE 0)

\* a week of hourly rows with a PM10 column, newest row first or with
\* incomplete rows around them
WideTables ==
    {table_of({"timestamp", Target, "PM10"}, [k \in 1..170 |-> k - 1],
              [k \in 1..170 |-> wide_value(k - 1)], layout) :
        layout \in {"reversed", "gaps"}}

\* scipy missing, or f_oneway returning F = 4, p = 0.01
FrameScipyOutcomes ==
    {[installed |-> FALSE],
     [installed |-> TRUE, f_stat |-> whole(4), p_value |-> fraction(1, 100)]}

Sensitivities == {"low", "medium", "high", "auto"}

\* thresholds of detect_anomalies_zscore: 1 and the default
ZscoreThresholds == {1, 3}

---------------------------------------------------------------------------
(* What the time-series calls do to tables *)

\* data[['timestamp', pollutant]]: a new table of two columns
selected(rows, pollutant) ==
    listed([k \in 1..Len(rows) |->
               [c \in DOMAIN rows[k] \cap {"timestamp", pollutant} |-> rows[k][c]]])

\* data[['timestamp', pollutant]].dropna().sort_values('timestamp'): each
\* step hands back a new table.  Nothing is allocated when the call returns
\* or raises before this line.
series_frames(st, pollutant) ==
    IF ~({"timestamp", pollutant} \subseteq st[1].columns)
    THEN [store |-> st, id |-> 1]
    ELSE bind(derive(st, 1, frame({"timestamp", pollutant},
                                  selected(st[1].rows, pollutant))),
         LAMBDA chosen :
         bind(derive(chosen.store, chosen.id,
                     frame({"timestamp", pollutant},
                           complete_rows(chosen.store[chosen.id].rows, pollutant))),
         LAMBDA dropped :
              derive(dropped.store, dropped.id,
                     frame({"timestamp", pollutant},
                           sort_values(dropped.store[dropped.id].rows)))))

\* ts_data['hour'], ts_data['day_of_week'], ts_data['month'] are written
\* into the table the call derived, when it has a week of rows
seasonal_frames(st, pollutant) ==
    bind(series_frames(st, pollutant), LAMBDA ts :
        IF ts.id = 1 \/ ~enough_for_seasonal(Len(ts.store[ts.id].rows))
        THEN ts.store
        ELSE bind([k \in 1..Len(ts.store[ts.id].rows) |->
                      ts.store[ts.id].rows[k]["timestamp"]],
             LAMBDA stamps :
             bind(assign(ts.store, ts.id, "hour",
                         [k \in DOMAIN stamps |-> hour(stamps[k])]),
             LAMBDA with_hour :
             bind(assign(with_hour, ts.id, "day_of_week",
                         [k \in DOMAIN stamps |-> day_of_week(stamps[k])]),
             LAMBDA with_day :
                assign(with_day, ts.id, "month",
                       [k \in DOMAIN stamps |-> month(stamps[k])])))))

\* the table as predict_future_levels reads it: its columns, the number of
\* complete rows and the latest timestamp among them
series_of(table, pollutant) ==
    bind(complete_rows(table.rows, pollutant), LAMBDA rows :
        [columns   |-> table.columns \cap {"timestamp", "date", pollutant},
         points    |-> Len(rows),
         last_date |-> IF Len(rows) = 0 THEN 0
                       ELSE CHOOSE t \in {rows[k]["timestamp"] : k \in 1..Len(rows)} :
                               \A k \in 1..Len(rows) : rows[k]["timestamp"] <= t])

---------------------------------------------------------------------------
(* Specification of a caller holding one table across calls *)

\* store[1] is the caller's table, snapshot its content when the caller got
\* it; after a detector call store[returned_id] is the table handed back.
FramesInit ==
    /\ pc = "table_held"
    /\ store \in {<<t>> : t \in CleanTables \cup OtherTables \cup WideTables}
    /\ snapshot = store[1]
    /\ call = [op |-> "none"]
    /\ returned_id = 1
    /\ report = << >>
    /\ call_raised = "none"
    /\ IndexIdle
    /\ AqiIdle
    /\ ForecastIdle
    /\ TrendIdle
    /\ SeasonalIdle
    /\ GuiIdle
    /\ SystemIdle

\* cleaned, stats = detect_anomalies_mad(data, 'so2', sensitivity)
DetectAnomaliesMad ==
    /\ pc = "table_held"
    /\ \E sensitivity \in Sensitivities :
         \E out \in float_outcomes(LAMBDA fp :
                        detect_anomalies_mad(<<store[1]>>, Target, sensitivity, fp)) :
            /\ store' = out.store
            /\ returned_id' = out.returned
            /\ report' = out.stats
            /\ call' = [op |-> "detect_anomalies_mad", sensitivity |-> sensitivity]
    /\ call_raised' = "none"
    /\ UNCHANGED <<pc, snapshot>>
    /\ UNCHANGED <<indexVars, aqiVars, forecastVars, trendVars, seasonalVars,
                   guiVars, systemVars>>

\* cleaned, stats = detect_anomalies_iqr(data, 'so2')
DetectAnomaliesIqr ==
    /\ pc = "table_held"
    /\ \E out \in float_outcomes(LAMBDA fp :
                      detect_anomalies_iqr(<<store[1]>>, Target, fp)) :
          /\ store' = out.store
          /\ returned_id' = out.returned
          /\ report' = out.stats
    /\ call' = [op |-> "detect_anomalies_iqr"]
    /\ call_raised' = "none"
    /\ UNCHANGED <<pc, snapshot>>
    /\ UNCHANGED <<indexVars, aqiVars, forecastVars, trendVars, seasonalVars,
                   guiVars, systemVars>>

\* cleaned, stats = detect_anomalies_zscore(data, 'so2', threshold)
DetectAnomaliesZscore ==
    /\ pc = "table_held"
    /\ \E threshold \in ZscoreThresholds :
         \E out \in float_outcomes(LAMBDA fp :
                        detect_anomalies_zscore(<<store[1]>>, Target, threshold, fp)) :
            /\ store' = out.store
            /\ returned_id' = out.returned
            /\ report' = out.stats
            /\ call' = [op |-> "detect_anomalies_zscore", threshold |-> threshold]
    /\ call_raised' = "none"
    /\ UNCHANGED <<pc, snapshot>>
    /\ UNCHANGED <<indexVars, aqiVars, forecastVars, trendVars, seasonalVars,
                   guiVars, systemVars>>

\* calculate_pollution_trend(data, 'so2', 'composite'): the tables it
\* derived are dropped when it returns
TrendOnTable ==
    /\ pc = "table_held"
    /\ \E outcome \in DecompositionOutcomes :
         \E out \in {calculate_pollution_trend(store[1], Target, "composite", outcome)} :
            /\ store' = <<series_frames(<<store[1]>>, Target).store[1]>>
            /\ report' = out.result
            /\ call_raised' = out.raised
            /\ call' = [op |-> "calculate_pollution_trend", decomposition |-> outcome]
    /\ returned_id' = 1
    /\ UNCHANGED <<pc, snapshot>>
    /\ UNCHANGED <<indexVars, aqiVars, forecastVars, trendVars, seasonalVars,
                   guiVars, systemVars>>

\* predict_future_levels(data, 'so2', 1, 'hybrid')
ForecastOnTable ==
    /\ pc = "table_held"
    /\ \E arima_outcome \in Outcomes(1), ensemble_outcome \in Outcomes(1) :
         \E out \in {predict_future_levels(series_of(store[1], Target), Target, 1,
                                           "hybrid", arima_outcome, ensemble_outcome)} :
            /\ store' = <<series_frames(<<store[1]>>, Target).store[1]>>
            /\ report' = out.result
            /\ call_raised' = out.raised
            /\ call' = [op |-> "predict_future_levels", arima |-> arima_outcome,
                        ensemble |-> ensemble_outcome]
    /\ returned_id' = 1
    /\ UNCHANGED <<pc, snapshot>>
    /\ UNCHANGED <<indexVars, aqiVars, forecastVars, trendVars, seasonalVars,
                   guiVars, systemVars>>

\* compute_air_quality_index(data): it reads data[pollutant].dropna(), a
\* new series, and builds no table
AqiOnTable ==
    /\ pc = "table_held"
    /\ \E fp \in [ConfigNames(default_config) \cap store[1].columns -> FpError] :
          /\ report' = compute_air_quality_index(store[1].columns, store[1].rows,
                                                 default_config, fp)
          /\ call' = [op |-> "compute_air_quality_index", fp |-> fp]
    /\ store' = <<store[1]>>
    /\ returned_id' = 1
    /\ call_raised' = "none"
    /\ UNCHANGED <<pc, snapshot>>
    /\ UNCHANGED <<indexVars, aqiVars, forecastVars, trendVars, seasonalVars,
                   guiVars, systemVars>>

\* analyze_seasonal_patterns(data, 'so2', 'daily')
SeasonalOnTable ==
    /\ pc = "table_held"
    /\ \E stats \in FrameScipyOutcomes :
         \E out \in {analyze_seasonal_patterns(store[1], Target, "daily", stats)} :
            /\ store' = <<seasonal_frames(<<store[1]>>, Target)[1]>>
            /\ report' = out.result
            /\ call_raised' = out.raised
            /\ call' = [op |-> "analyze_seasonal_patterns", scipy |-> stats]
    /\ returned_id' = 1
    /\ UNCHANGED <<pc, snapshot>>
    /\ UNCHANGED <<indexVars, aqiVars, forecastVars, trendVars, seasonalVars,
                   guiVars, systemVars>>

FramesNext ==
    \/ DetectAnomaliesMad
    \/ DetectAnomaliesIqr
    \/ DetectAnomaliesZscore
    \/ TrendOnTable
    \/ ForecastOnTable
    \/ AqiOnTable
    \/ SeasonalOnTable

SpecFrames == FramesInit /\ [][FramesNext]_vars

---------------------------------------------------------------------------
(* Properties of the detectors and of the caller's table, checked under
   SpecFrames *)

Detectors ==
    {"detect_anomalies_mad", "detect_anomalies_iqr", "detect_anomalies_zscore"}

\* the readings of the target column in the table the caller passed
HeldValues == column_values(dropna_subset(snapshot.rows, Target), Target)

Constant(values) == \A j, k \in 1..Len(values) : values[j] = values[k]

\* C21: on a series whose non-missing values are all equal,
\* detect_anomalies_mad flags nothing for every sensitivity setting:
\* anomalies_detected is 0 and the cleaned table holds every row that has
\* a value.  (No reading of such a series passes a bound, whatever the
\* rounding of mean() and std() leaves of the standard deviation.)
C21_ConstantSeriesKept ==
    (/\ call.op = "detect_anomalies_mad"
     /\ Target \in snapshot.columns
     /\ Constant(HeldValues)) =>
        /\ report["anomalies_detected"] = 0
        /\ dropna_subset(store[returned_id].rows, Target)
              = dropna_subset(snapshot.rows, Target)

\* three readings of 4.2 and a row without one, sensitivity 'high': the
\* three rows come back in a new table
C21_Witness ==
    /\ call.op = "detect_anomalies_mad"
    /\ call.sensitivity = "high"
    /\ Len(snapshot.rows) = 4
    /\ HeldValues = <<42, 42, 42>>
    /\ report["anomalies_detected"] = 0
    /\ returned_id = 2
    /\ Len(store[2].rows) = 3

\* the place of the one reading that is a hundred times the others, which
\* are all m > 0; 0 when the series has another shape
OutlierPlace(values) ==
    LET places == {k \in 1..Len(values) :
                      \E m \in OutlierMedians :
                         /\ values[k] = 100 * m
                         /\ \A j \in 1..Len(values) \ {k} : values[j] = m}
    IN  IF places = {} THEN 0 ELSE only(places)

\* C22: on a series of n >= 3 readings, all equal to m > 0 but one equal
\* to 100 * m, detect_anomalies_mad with sensitivity 'high' flags exactly
\* that reading: anomalies_detected is 1 and the cleaned table holds the
\* other n - 1 rows.  (The outlier lies 99 m from the median, the bound
\* 2.5 * std / 1.4826 at 99 m * 1.686 / root(n): no comparison is tied.)
C22_SingleOutlierFlagged ==
    (/\ call.op = "detect_anomalies_mad"
     /\ call.sensitivity = "high"
     /\ Target \in snapshot.columns
     /\ Len(HeldValues) >= 3
     /\ OutlierPlace(HeldValues) # 0) =>
        /\ report["anomalies_detected"] = 1
        /\ Len(store[returned_id].rows) = Len(HeldValues) - 1
        /\ column_values(store[returned_id].rows, Target)
              = [k \in 1..Len(HeldValues) - 1 |->
                    HeldValues[1 + (OutlierPlace(HeldValues) % Len(HeldValues))]]
        /\ \A k \in 1..Len(store[returned_id].rows) :
              \E j \in 1..Len(snapshot.rows) :
                 store[returned_id].rows[k] = snapshot.rows[j]

\* 4.2, 420.0, 4.2: the middle row is flagged through the fallback on the
\* standard deviation, the median absolute deviation being 0
C22_Witness ==
    /\ call.op = "detect_anomalies_mad"
    /\ call.sensitivity = "high"
    /\ HeldValues = <<42, 4200, 42>>
    /\ Len(snapshot.rows) = 3
    /\ report["anomalies_detected"] = 1
    /\ report["threshold_used"] = 25
    /\ Len(store[returned_id].rows) = 2

\* C23: when the target column exists and no row is left after dropping
\* the rows without a reading, each of the three detectors hands back the
\* table it was given, with all its rows, and a report that says there is
\* no data; it does not raise.
C23_NoDataReturnsInput ==
    (/\ call.op \in Detectors
     /\ Target \in snapshot.columns
     /\ Len(HeldValues) = 0) =>
        /\ returned_id = 1
        /\ store[returned_id] = snapshot
        /\ "error" \in DOMAIN report
        /\ report["error"] = "no data for analysis"
        /\ call_raised = "none"
        /\ call.op = "detect_anomalies_mad" => report["anomalies_detected"] = 0

\* two rows without a reading given to detect_anomalies_iqr
C23_Witness ==
    /\ call.op = "detect_anomalies_iqr"
    /\ Target \in snapshot.columns
    /\ Len(snapshot.rows) = 2
    /\ Len(HeldValues) = 0
    /\ returned_id = 1
    /\ Len(store[returned_id].rows) = 2
    /\ report["error"] = "no data for analysis"

\* C24: whatever calls were made, the caller's table is as the caller got
\* it; a detector that cleaned a series hands back a table of its own,
\* whose rows are rows of the caller's table, the readings of the other
\* pollutants included.
C24_CallerTableUnchanged ==
    /\ store[1] = snapshot
    /\ (call.op \in Detectors /\ "error" \notin DOMAIN report) =>
          /\ returned_id = 2
          /\ store[2].columns = snapshot.columns
          /\ \A k \in 1..Len(store[2].rows) :
                \E j \in 1..Len(snapshot.rows) : store[2].rows[k] = snapshot.rows[j]

\* a seasonal analysis of a week of rows, which writes three columns into
\* the table it works on
C24_Witness ==
    /\ call.op = "analyze_seasonal_patterns"
    /\ Len(snapshot.rows) = 172
    /\ call_raised = "none"
    /\ "error" \notin DOMAIN report
    /\ "hourly_patterns" \in DOMAIN report
    /\ store[1] = snapshot

---------------------------------------------------------------------------
(* gui_main: analyses run in worker threads *)

\* The GUI thread runs the button handlers; each analysis runs in an
\* AnalysisThread whose run() calls the analysis function and then, in its
\* finally clause, on_analysis_complete in the worker thread itself.  The
\* statements of the threads interleave freely: a step of the model is one
\* statement of set_analysis_buttons_state, or a stretch of statements
\* that reads or writes the shared attributes once.
\*
\* gui_pc is "mainloop" while the GUI thread waits for the user, and the
\* name of the handler it is in otherwise; inside a handler gui_step
\* counts the statements of set_analysis_buttons_state already done (0 to
\* 5), and is 6 before the thread is started, 7 before the handler's last
\* statement and 8 before a return that follows a message box.  message
\* is the message box the GUI thread has open, "none" when it has none;
\* the progress texts are left out.
\*
\* threads[i] is the i-th thread started: state "running" (inside target),
\* "finished" (result or exception set; the callback is inside
\* set_analysis_buttons_state(True) and has done the first
\* threads[i].configured of its config() calls), "callback"
\* (set_analysis_buttons_state(True) has returned), "error_box" (the
\* callback is inside messagebox.showerror, which returns when the user
\* closes the box), "displaying" (the
\* callback has read pending_update and is inside that display handler,
\* before its write to analysis_results), "written" (the display handler
\* is past that write, before its calls of the text widget), "done" (run()
\* has returned).  A result is named by the thread that produced it;
\* displayed[i] is the display handler that was called with the result of
\* thread i, analysis_results[key] the thread whose result is stored under
\* the key.  cancelled holds the threads cancel_analysis was invoked on.

\* the most analyses started in a run
MaxAnalyses == 2

\* the most files loaded in a run
MaxLoads == 1

\* the most clicks on the analysis and cancel buttons in a run
MaxClicks == 3

Handlers == {"analyze_trends", "analyze_forecast", "calculate_aqi", "analyze_seasonal"}

\* self.pending_update = self.display_..._results at the end of a handler
display_of(handler) ==
    CASE handler = "analyze_trends"   -> "display_trends_results"
      [] handler = "analyze_forecast" -> "display_forecast_results"
      [] handler = "calculate_aqi"    -> "display_aqi_results"
      [] handler = "analyze_seasonal" -> "display_seasonal_results"

\* self.analysis_results[...] of a display handler
key_of(display) ==
    CASE display = "display_trends_results"   -> "trends"
      [] display = "display_forecast_results" -> "forecast"
      [] display = "display_aqi_results"      -> "aqi"
      [] display = "display_seasonal_results" -> "seasonal"

\* what an analysis function hands back: a dict of results ("full"), a
\* dict with the key 'error', the empty dict of an AQI call that found no
\* pollutant, or an exception ("raised")
target_outcomes(handler) ==
    IF handler = "calculate_aqi" THEN {"full", "empty", "raised"}
    ELSE {"full", "error", "raised"}

\* a display handler called with a result: "failure_shown" for the branch
\* "if not result or 'error' in result" ("if not aqi_results" for the AQI
\* handler), "stored" when it reaches self.analysis_results[key] = result,
\* "raised" when display_aqi_results meets the string values of another
\* analysis's dict (poll_data.get on a str)
display(handler, produced_by, outcome) ==
    IF handler = "display_aqi_results"
    THEN IF outcome = "empty" THEN "failure_shown"
         ELSE IF produced_by = "calculate_aqi" THEN "stored" ELSE "raised"
    ELSE IF outcome \in {"empty", "error"} THEN "failure_shown" ELSE "stored"

\* the variant of run() whose callback is reached only from a target that
\* returned
after_target_returned(outcome) == IF outcome = "raised" THEN "done" ELSE "finished"

\* "finally: if self.callback: self.callback(self)": the callback follows
\* whatever the target did
after_target(outcome) == "finished"

\* threading.Thread.is_alive(): run() has not returned
is_alive(i) ==
    threads[i].state \in {"running", "finished", "callback", "error_box",
                          "displaying", "written"}

\* set_analysis_buttons_state: the buttons in the order of its config()
\* calls
button_order ==
    <<"analyze_trends", "analyze_forecast", "calculate_aqi", "analyze_seasonal",
      "cancel_analysis">>

\* the buttons in state 'normal' after the k-th config() call of
\* set_analysis_buttons_state(enabled): the four analysis buttons get
\* 'normal' if enabled, the cancel button gets 'normal' if not enabled
config(buttons, k, enabled) ==
    IF (k <= 4) = enabled THEN buttons \cup {button_order[k]}
    ELSE buttons \ {button_order[k]}

\* load_data: what the file dialog and load_environmental_data make of the
\* user's choice
LoadOutcomes == {"no file chosen", "empty table", "loaded"}

---------------------------------------------------------------------------
(* Specification of the analysis buttons *)

\* setup_ui: the analysis buttons are created enabled, the cancel button
\* with state='disabled'; __init__ sets data = None
GuiInit ==
    /\ pc = "gui"
    /\ gui_data = 0
    /\ gui_pc = "mainloop"
    /\ gui_step = 0
    /\ is_analyzing = FALSE
    /\ buttons_enabled = Handlers
    /\ analysis_thread = 0
    /\ pending_update = "unset"
    /\ threads = << >>
    /\ displayed = << >>
    /\ analysis_results = << >>
    /\ cancelled = {}
    /\ message = "none"
    /\ clicks = 0
    /\ IndexIdle
    /\ AqiIdle
    /\ ForecastIdle
    /\ TrendIdle
    /\ SeasonalIdle
    /\ FramesIdle
    /\ SystemIdle

\* load_data up to its message box: with no file chosen it returns;
\* otherwise self.data is assigned what load_environmental_data returned,
\* an empty table included (the error box comes after the assignment)
LoadData ==
    /\ gui_pc = "mainloop"
    /\ \E outcome \in LoadOutcomes :
          IF outcome = "no file chosen"
          THEN UNCHANGED <<gui_data, gui_pc, gui_step, message>>
          ELSE /\ gui_data < MaxLoads
               /\ gui_data' = gui_data + 1
               /\ gui_pc' = "load_data"
               /\ gui_step' = 8
               /\ message' = IF outcome = "empty table" THEN "load failed"
                             ELSE "loaded"
    /\ UNCHANGED <<is_analyzing, buttons_enabled, analysis_thread,
                   pending_update, threads, displayed, analysis_results, cancelled, clicks>>
    /\ UNCHANGED <<pc, indexVars, aqiVars, forecastVars, trendVars, seasonalVars,
                   frameVars, systemVars>>

\* a handler up to the test of analyze_in_thread; its button is enabled.
\* With no data it warns and returns; analyze_in_thread warns and returns
\* when is_analyzing, which leaves the handler before its last statement,
\* and otherwise enters set_analysis_buttons_state(False) on the way to
\* starting a thread.  MaxClicks bounds the clicks of a run, MaxAnalyses
\* the threads it starts.
analyze(handler) ==
    /\ gui_pc = "mainloop"
    /\ handler \in buttons_enabled
    /\ clicks < MaxClicks
    /\ clicks' = clicks + 1
    /\ gui_pc' = handler
    /\ IF gui_data = 0
       THEN /\ message' = "load data first"
            /\ gui_step' = 8
       ELSE IF is_analyzing
            THEN /\ message' = "another analysis is running"
                 /\ gui_step' = 7
            ELSE /\ Len(threads) < MaxAnalyses
                 /\ gui_step' = 0
                 /\ UNCHANGED message
    /\ UNCHANGED <<gui_data, is_analyzing, buttons_enabled, analysis_thread,
                   pending_update, threads, displayed, analysis_results, cancelled>>
    /\ UNCHANGED <<pc, indexVars, aqiVars, forecastVars, trendVars, seasonalVars,
                   frameVars, systemVars>>

AnalyzeTrends == analyze("analyze_trends")

AnalyzeForecast == analyze("analyze_forecast")

CalculateAqi == analyze("calculate_aqi")

AnalyzeSeasonal == analyze("analyze_seasonal")

\* messagebox.showwarning, showerror and showinfo in the GUI thread return
\* when the user closes the box; the handler goes on to its last
\* statement or returns
CloseMessage ==
    /\ message # "none"
    /\ message' = "none"
    /\ IF gui_step = 7
       THEN UNCHANGED <<gui_pc, gui_step>>
       ELSE gui_pc' = "mainloop" /\ gui_step' = 0
    /\ UNCHANGED <<gui_data, is_analyzing, buttons_enabled, analysis_thread,
                   pending_update, threads, displayed, analysis_results, cancelled, clicks>>
    /\ UNCHANGED <<pc, indexVars, aqiVars, forecastVars, trendVars, seasonalVars,
                   frameVars, systemVars>>

\* cancel_analysis; its button is enabled.  With a live analysis_thread it
\* enters set_analysis_buttons_state(True)
CancelAnalysis ==
    /\ gui_pc = "mainloop"
    /\ "cancel_analysis" \in buttons_enabled
    /\ IF analysis_thread # 0 /\ is_alive(analysis_thread)
       THEN /\ clicks < MaxClicks
            /\ clicks' = clicks + 1
            /\ gui_pc' = "cancel_analysis"
            /\ gui_step' = 0
            /\ cancelled' = cancelled \cup {analysis_thread}
       ELSE UNCHANGED <<gui_pc, gui_step, cancelled, clicks>>
    /\ UNCHANGED <<gui_data, is_analyzing, buttons_enabled, analysis_thread,
                   pending_update, threads, displayed, analysis_results, message>>
    /\ UNCHANGED <<pc, indexVars, aqiVars, forecastVars, trendVars, seasonalVars,
                   frameVars, systemVars>>

\* set_analysis_buttons_state in the GUI thread, one config() call: with
\* False inside an analysis handler, with True inside cancel_analysis
GuiConfigButton ==
    /\ gui_pc \in Handlers \cup {"cancel_analysis"}
    /\ gui_step < 5
    /\ buttons_enabled' = config(buttons_enabled, gui_step + 1,
                                 gui_pc = "cancel_analysis")
    /\ gui_step' = gui_step + 1
    /\ UNCHANGED <<gui_data, gui_pc, is_analyzing, analysis_thread, pending_update,
                   threads, displayed, analysis_results, cancelled, message, clicks>>
    /\ UNCHANGED <<pc, indexVars, aqiVars, forecastVars, trendVars, seasonalVars,
                   frameVars, systemVars>>

\* set_analysis_buttons_state in the GUI thread, its last statement:
\* self.is_analyzing = not enabled; cancel_analysis then returns
GuiWriteIsAnalyzing ==
    /\ gui_pc \in Handlers \cup {"cancel_analysis"}
    /\ gui_step = 5
    /\ is_analyzing' = (gui_pc # "cancel_analysis")
    /\ IF gui_pc = "cancel_analysis"
       THEN gui_pc' = "mainloop" /\ gui_step' = 0
       ELSE gui_pc' = gui_pc /\ gui_step' = 6
    /\ UNCHANGED <<gui_data, buttons_enabled, analysis_thread, pending_update,
                   threads, displayed, analysis_results, cancelled, message, clicks>>
    /\ UNCHANGED <<pc, indexVars, aqiVars, forecastVars, trendVars, seasonalVars,
                   frameVars, systemVars>>

\* analyze_in_thread, the rest: self.analysis_thread = AnalysisThread(...)
\* and start()
StartThread ==
    /\ gui_pc \in Handlers
    /\ gui_step = 6
    /\ threads' = Append(threads, [handler |-> gui_pc, state |-> "running",
                                   outcome |-> "none", configured |-> 0])
    /\ displayed' = Append(displayed, "none")
    /\ analysis_thread' = Len(threads) + 1
    /\ gui_step' = 7
    /\ UNCHANGED <<gui_data, gui_pc, is_analyzing, buttons_enabled, pending_update,
                   analysis_results, cancelled, message, clicks>>
    /\ UNCHANGED <<pc, indexVars, aqiVars, forecastVars, trendVars, seasonalVars,
                   frameVars, systemVars>>

\* the last statement of a handler: self.pending_update = self.display_...
StorePendingUpdate ==
    /\ gui_pc \in Handlers
    /\ gui_step = 7
    /\ message = "none"
    /\ pending_update' = display_of(gui_pc)
    /\ gui_pc' = "mainloop"
    /\ gui_step' = 0
    /\ UNCHANGED <<gui_data, is_analyzing, buttons_enabled, analysis_thread, threads,
                   displayed, analysis_results, cancelled, message, clicks>>
    /\ UNCHANGED <<pc, indexVars, aqiVars, forecastVars, trendVars, seasonalVars,
                   frameVars, systemVars>>

\* AnalysisThread.run: the target returns or raises
TargetEnds(i) ==
    /\ i \in 1..Len(threads)
    /\ threads[i].state = "running"
    /\ \E outcome \in target_outcomes(threads[i].handler) :
          threads' = [threads EXCEPT ![i].state = after_target(outcome),
                                     ![i].outcome = outcome]
    /\ UNCHANGED <<gui_data, gui_pc, gui_step, is_analyzing, buttons_enabled,
                   analysis_thread, pending_update, displayed, analysis_results,
                   cancelled, message, clicks>>
    /\ UNCHANGED <<pc, indexVars, aqiVars, forecastVars, trendVars, seasonalVars,
                   frameVars, systemVars>>

\* on_analysis_complete, inside set_analysis_buttons_state(True): one
\* config() call of the worker thread
ConfigButton(i) ==
    /\ i \in 1..Len(threads)
    /\ threads[i].state = "finished"
    /\ threads[i].configured < 5
    /\ buttons_enabled' = config(buttons_enabled, threads[i].configured + 1, TRUE)
    /\ threads' = [threads EXCEPT ![i].configured = @ + 1]
    /\ UNCHANGED <<gui_data, gui_pc, gui_step, is_analyzing, analysis_thread,
                   pending_update, displayed, analysis_results, cancelled, message, clicks>>
    /\ UNCHANGED <<pc, indexVars, aqiVars, forecastVars, trendVars, seasonalVars,
                   frameVars, systemVars>>

\* on_analysis_complete, the last statement of
\* set_analysis_buttons_state(True): self.is_analyzing = False
WriteIsAnalyzing(i) ==
    /\ i \in 1..Len(threads)
    /\ threads[i].state = "finished"
    /\ threads[i].configured = 5
    /\ is_analyzing' = FALSE
    /\ threads' = [threads EXCEPT ![i].state = "callback"]
    /\ UNCHANGED <<gui_data, gui_pc, gui_step, buttons_enabled, analysis_thread,
                   pending_update, displayed, analysis_results, cancelled, message, clicks>>
    /\ UNCHANGED <<pc, indexVars, aqiVars, forecastVars, trendVars, seasonalVars,
                   frameVars, systemVars>>

\* on_analysis_complete, after set_analysis_buttons_state: with an
\* exception the worker opens messagebox.showerror and waits in it;
\* otherwise self.pending_update is read, when the attribute is set, and
\* called with thread.result; when it is not set run() returns
Deliver(i) ==
    /\ i \in 1..Len(threads)
    /\ threads[i].state = "callback"
    /\ IF threads[i].outcome = "raised"
       THEN /\ threads' = [threads EXCEPT ![i].state = "error_box"]
            /\ UNCHANGED displayed
       ELSE IF pending_update = "unset"
            THEN /\ threads' = [threads EXCEPT ![i].state = "done"]
                 /\ UNCHANGED displayed
            ELSE /\ threads' = [threads EXCEPT ![i].state = "displaying"]
                 /\ displayed' = [displayed EXCEPT ![i] = pending_update]
    /\ UNCHANGED <<gui_data, gui_pc, gui_step, is_analyzing, buttons_enabled,
                   analysis_thread, pending_update, analysis_results, cancelled,
                   message, clicks>>
    /\ UNCHANGED <<pc, indexVars, aqiVars, forecastVars, trendVars, seasonalVars,
                   frameVars, systemVars>>

\* the display handler the callback called, up to its write
\* self.analysis_results[key] = result; in its failure branch there is no
\* write, and an exception inside it ends run()
DisplayResults(i) ==
    /\ i \in 1..Len(threads)
    /\ threads[i].state = "displaying"
    /\ LET shown == display(displayed[i], threads[i].handler, threads[i].outcome)
       IN  /\ threads' = [threads EXCEPT ![i].state =
                             IF shown = "raised" THEN "done" ELSE "written"]
           /\ analysis_results' =
                 IF shown = "stored"
                 THEN [key \in DOMAIN analysis_results \cup {key_of(displayed[i])} |->
                          IF key = key_of(displayed[i]) THEN i
                          ELSE analysis_results[key]]
                 ELSE analysis_results
    /\ UNCHANGED <<gui_data, gui_pc, gui_step, is_analyzing, buttons_enabled,
                   analysis_thread, pending_update, displayed, cancelled, message, clicks>>
    /\ UNCHANGED <<pc, indexVars, aqiVars, forecastVars, trendVars, seasonalVars,
                   frameVars, systemVars>>

\* the display handler's calls of the text widget; then it, the callback
\* and run() return
RunReturns(i) ==
    /\ i \in 1..Len(threads)
    /\ threads[i].state = "written"
    /\ threads' = [threads EXCEPT ![i].state = "done"]
    /\ UNCHANGED <<gui_data, gui_pc, gui_step, is_analyzing, buttons_enabled,
                   analysis_thread, pending_update, displayed, analysis_results,
                   cancelled, message, clicks>>
    /\ UNCHANGED <<pc, indexVars, aqiVars, forecastVars, trendVars, seasonalVars,
                   frameVars, systemVars>>

\* the user closes the error box of the callback: messagebox.showerror,
\* on_analysis_complete and run() return
CloseErrorBox(i) ==
    /\ i \in 1..Len(threads)
    /\ threads[i].state = "error_box"
    /\ threads' = [threads EXCEPT ![i].state = "done"]
    /\ UNCHANGED <<gui_data, gui_pc, gui_step, is_analyzing, buttons_enabled,
                   analysis_thread, pending_update, displayed, analysis_results,
                   cancelled, message, clicks>>
    /\ UNCHANGED <<pc, indexVars, aqiVars, forecastVars, trendVars, seasonalVars,
                   frameVars, systemVars>>

\* run() from the end of the target to the return of
\* set_analysis_buttons_state(True): no statement of it waits for the user
UntilButtonsSet(i) ==
    \/ TargetEnds(i)
    \/ ConfigButton(i)
    \/ WriteIsAnalyzing(i)

\* the steps a worker thread takes by itself
Worker(i) ==
    \/ UntilButtonsSet(i)
    \/ Deliver(i)
    \/ DisplayResults(i)
    \/ RunReturns(i)

GuiNext ==
    \/ LoadData
    \/ AnalyzeTrends
    \/ AnalyzeForecast
    \/ CalculateAqi
    \/ AnalyzeSeasonal
    \/ CloseMessage
    \/ CancelAnalysis
    \/ GuiConfigButton
    \/ GuiWriteIsAnalyzing
    \/ StartThread
    \/ StorePendingUpdate
    \/ \E i \in 1..MaxAnalyses : Worker(i)
    \/ \E i \in 1..MaxAnalyses : CloseErrorBox(i)

SpecGui == GuiInit /\ [][GuiNext]_vars

\* the threads are scheduled, and the analysis functions return or raise:
\* a worker goes on up to the return of set_analysis_buttons_state(True).
\* Nothing is assumed of the user, who alone ends the wait in the error
\* box, nor of the GUI thread.  Every step of a worker changes threads.
SpecGuiLive == SpecGui /\ \A i \in 1..MaxAnalyses : WF_threads(UntilButtonsSet(i))

---------------------------------------------------------------------------
(* Properties of the analysis buttons, checked under SpecGui and
   SpecGuiLive *)

StoredFrom(i) == {key \in DOMAIN analysis_results : analysis_results[key] = i}

\* C25: the result of a worker that cancel_analysis was invoked on is
\* never passed to a display handler and never stored in analysis_results,
\* whatever happens afterwards.
C25_CancelledResultDiscarded ==
    \A i \in cancelled : displayed[i] = "none" /\ StoredFrom(i) = {}

\* C27: the result of each analysis that completed is delivered to the
\* display handler of the analysis that produced it, never to another
\* handler or to none.
C27_DeliveredToOwnHandler ==
    \A i \in 1..Len(threads) :
        (threads[i].state = "done" /\ threads[i].outcome # "raised") =>
            displayed[i] = display_of(threads[i].handler)

\* C28: at most one worker thread is alive at any time, and is_analyzing
\* is true whenever a worker is alive.
C28_SingleWorker ==
    /\ Cardinality({i \in 1..Len(threads) : is_alive(i)}) <= 1
    /\ (\E i \in 1..Len(threads) : is_alive(i)) => is_analyzing

\* the completion callback of thread i has run
\* set_analysis_buttons_state(True) to its end
buttons_set(i) == threads[i].state \notin {"running", "finished"}

\* C29: every started analysis leaves the analyzing state: its completion
\* callback gets to the end of set_analysis_buttons_state(True) (a thread
\* stays started and stays past that point, so this is: again and again,
\* the thread is not started or is past it), whether or not the user ever
\* closes the error box; each config() call of the callback leaves its
\* analysis button enabled (the cancel button disabled) and its last
\* statement leaves is_analyzing false; run() returns only after that, and
\* after a raised function only out of the error box; the result of an
\* analysis function that raised is neither passed to a display handler
\* nor stored.
C29_AnalysisEnds ==
    /\ \A i \in 1..MaxAnalyses :
          []<>(i <= Len(threads) => buttons_set(i))
    /\ [][\A i \in 1..Len(threads) :
             /\ (threads[i].state # "done" /\ threads'[i].state = "done")
                   => /\ (threads[i].outcome = "raised"
                            => threads[i].state = "error_box")
                      /\ buttons_set(i)
                      /\ threads[i].configured = 5
             /\ (threads'[i].configured # threads[i].configured)
                   => /\ threads'[i].configured = threads[i].configured + 1
                      /\ IF threads'[i].configured <= 4
                         THEN button_order[threads'[i].configured] \in buttons_enabled'
                         ELSE "cancel_analysis" \notin buttons_enabled'
             /\ (~buttons_set(i) /\ threads'[i].state \notin {"running", "finished"})
                   => /\ threads[i].configured = 5
                      /\ threads'[i].state = "callback"
                      /\ ~is_analyzing']_vars
    /\ [](\A i \in 1..Len(threads) :
             threads[i].outcome = "raised" =>
                 (displayed[i] = "none" /\ StoredFrom(i) = {}))

\* an analysis whose function raised has left the analyzing state and its
\* worker waits in the error box: the buttons are enabled again, nothing
\* was displayed or stored
C29_Witness ==
    /\ Len(threads) = 1
    /\ threads[1].state = "error_box"
    /\ threads[1].outcome = "raised"
    /\ threads[1].configured = 5
    /\ ~is_analyzing
    /\ buttons_enabled = Handlers
    /\ displayed[1] = "none"
    /\ analysis_results = << >>

---------------------------------------------------------------------------
(* main_system: run_complete_analysis *)

\* A loaded file is described by what run_complete_analysis reads of it:
\* its columns, the number of readings of each pollutant column, the number
\* of rows detect_anomalies_mad removes, and the yearly averages of the
\* target (in tenths, one per year in date order) as they stand in the
\* prepared table.  Left out of the results: validation_report, data_info
\* and the values of the statistics other than their count.

\* numeric_columns of run_complete_analysis, in its order
target_order == <<"so2", "no2", "rspm", "spm", "pm2_5">>

\* "raw_data[col].notna().sum() > 1000"
enough_readings(count) == count > 1000

\* the loop over numeric_columns: the place in target_order of the first
\* column with enough readings, 0 when there is none
target_place(loaded) ==
    LET places == {k \in 1..Len(target_order) :
                      /\ target_order[k] \in loaded.columns
                      /\ enough_readings(loaded.counts[target_order[k]])}
    IN  IF places = {} THEN 0
        ELSE CHOOSE k \in places : \A j \in places : k <= j

\* base_columns of prepare_analysis_dataset: the columns it keeps
base_columns == {"date", "so2", "no2", "rspm", "spm"}

\* results['trend_analysis']: the quotient is taken on Python floats, so a
\* first-year average of 0 raises
trend_analysis(yearly) ==
    LET first_val == yearly[1]
        last_val  == yearly[Len(yearly)]
    IN  IF first_val = 0 THEN Raises("ZeroDivisionError")
        ELSE LET change_percent == fraction(100 * (last_val - first_val), first_val)
             IN  Returned("trend_analysis" :>
                    [overall_direction |-> IF change_percent.num > 0 THEN "rise" ELSE "fall",
                     change_percentage |-> [num |-> abs(change_percent.num),
                                            den |-> change_percent.den],
                     first_year_avg    |-> first_val,
                     last_year_avg     |-> last_val,
                     years_analyzed    |-> Len(yearly)])

\* the block "if 'date' in analysis_data.columns": the yearly grouping
\* selects the target column of the prepared table
yearly_part(loaded, target) ==
    IF "date" \notin loaded.columns THEN Returned(<< >>)
    ELSE IF target \notin base_columns THEN Raises("KeyError")
    ELSE IF Len(loaded.yearly) > 1 THEN trend_analysis(loaded.yearly)
    ELSE Returned(<< >>)

\* the block "if target_pollutant in analysis_data.columns"
statistics_part(loaded, target) ==
    IF target \in base_columns
    THEN "basic_statistics" :> [count |-> loaded.counts[target] - loaded.anomalies]
    ELSE << >>

run_complete_analysis(loaded) ==
    IF loaded.empty THEN Returned("error" :> "data not loaded")
    ELSE IF target_place(loaded) = 0
    THEN Returned("error" :> "no indicator with enough data")
    ELSE LET target == target_order[target_place(loaded)]
             trend  == yearly_part(loaded, target)
         IN  IF trend.raised # "none" THEN Raises(trend.raised)
             ELSE Returned(("target_pollutant" :> target)
                             @@ ("anomalies_stats" :>
                                    [anomalies_detected |-> loaded.anomalies])
                             @@ trend.result
                             @@ statistics_part(loaded, target))

---------------------------------------------------------------------------
(* Inputs of the complete-analysis specification *)

\* readings of a pollutant column: at the limit of the selection, above it
ReadingCounts == {1000, 1001}

\* yearly averages in tenths: 0.0, 4.2, 8.4
YearlyAverages == {0, 42, 84}

\* at most this many years in a file
MaxYears == 2

LoadedFiles ==
    {[empty |-> TRUE, columns |-> {}, counts |-> << >>, anomalies |-> 0,
      yearly |-> << >>]}
    \cup
    {[empty |-> FALSE, columns |-> dated \cup DOMAIN counts, counts |-> counts,
      anomalies |-> anomalies, yearly |-> yearly] :
        dated \in {{}, {"date"}},
        counts \in UNION {[present -> ReadingCounts] :
                             present \in SUBSET {"so2", "no2", "rspm", "spm", "pm2_5"}},
        anomalies \in 0..1,
        yearly \in UNION {[1..n -> YearlyAverages] : n \in 1..MaxYears}}

---------------------------------------------------------------------------
(* Specification of complete analyses *)

SystemInit ==
    /\ pc = "system_call"
    /\ raw_data \in LoadedFiles
    /\ system_results = << >>
    /\ system_raised = "none"
    /\ IndexIdle
    /\ AqiIdle
    /\ ForecastIdle
    /\ TrendIdle
    /\ SeasonalIdle
    /\ FramesIdle
    /\ GuiIdle

\* results = run_complete_analysis(file_path)
RunCompleteAnalysis ==
    /\ pc = "system_call"
    /\ \E out \in {run_complete_analysis(raw_data)} :
          /\ system_results' = out.result
          /\ system_raised' = out.raised
    /\ pc' = "system_done"
    /\ UNCHANGED raw_data
    /\ UNCHANGED <<indexVars, aqiVars, forecastVars, trendVars, seasonalVars,
                   frameVars, guiVars>>

SystemNext == RunCompleteAnalysis

SpecSystem == SystemInit /\ [][SystemNext]_vars

---------------------------------------------------------------------------
(* A property of run_complete_analysis, checked under SpecSystem *)

\* the first column of target_order with more than 1000 readings, "none"
\* when there is no such column
FirstWithReadings ==
    LET fit == {k \in 1..Len(target_order) :
                   /\ target_order[k] \in raw_data.columns
                   /\ raw_data.counts[target_order[k]] > 1000}
    IN  IF fit = {} THEN "none"
        ELSE target_order[CHOOSE k \in fit : \A j \in fit : k <= j]

\* C30: run_complete_analysis on a loaded file takes as target the first of
\* so2, no2, rspm, spm, pm2_5 that has more than 1000 readings and returns
\* an error result when there is none; for every target it returns without
\* raising and its results hold basic_statistics, also when the first
\* yearly average is 0.
C30_CompleteAnalysisReturns ==
    (pc = "system_done" /\ ~raw_data.empty) =>
        /\ system_raised = "none"
        /\ IF FirstWithReadings = "none"
           THEN "error" \in DOMAIN system_results
           ELSE /\ system_results["target_pollutant"] = FirstWithReadings
                /\ "basic_statistics" \in DOMAIN system_results

=============================================================================
